---- MODULE Spec2Model ----
(***************************************************************************)
(* State-machine model of the Supabase backup engine                       *)
(* (ProfessionalSupabaseBackup in src/professional-supabase-backup.js).    *)
(*                                                                         *)
(* Conventions                                                             *)
(*  - a JavaScript string that the code inspects character by character    *)
(*    (table names, exclusion entries) is a tuple of one-character         *)
(*    strings, so that String.prototype.includes / split are computed;     *)
(*  - a row of a remote table is its 1-based position in that table; its   *)
(*    column values are looked up in the remote service when a row is      *)
(*    sampled or rendered;                                                 *)
(*  - a written file is an entry of the variable  files ; an SQL script is *)
(*    the sequence of its comment lines and statements;                    *)
(*  - every method is an operator in state-passing style: it takes the     *)
(*    object state  self = [results, requests]  and returns the new state  *)
(*    together with the returned value and whether an exception escaped;   *)
(*  - the result of a call that later code reads several times is passed   *)
(*    to a LET-defined operator (Store(q), Step(a), ...) whose parameter   *)
(*    stands for the JavaScript local holding that result;                 *)
(*  - the remote service is the variable  remote , chosen in Init and      *)
(*    never changed by the program;                                        *)
(*  - Init is the state after the module was loaded (its constants are     *)
(*    evaluated); the action Main is the command-line block at the end of  *)
(*    the file: it reads argv, constructs the object and calls run().      *)
(***************************************************************************)
EXTENDS Integers, Sequences, FiniteSets, TLC

VARIABLES pc, argv, env, config, MANUAL_TABLES, remote, results, requests,
          files

vars ==
    <<pc, argv, env, config, MANUAL_TABLES, remote, results, requests, files>>

(***************************************************************************)
(* JavaScript values                                                       *)
(***************************************************************************)

\* null, as a number-typed slot (count, totalRows): never a valid count
Null == 0 - 1

\* undefined, as a number-typed slot (the .length of a non-array)
Undefined == 0 - 2

\* Number(x) for x a number, null or undefined-as-NaN is not needed: null -> 0
ToNumber(x) == IF x = Null THEN 0 ELSE x

\* a truthy JSON value that is not an array (what exec_sql may hand back)
Malformed == << [malformed |-> TRUE] >>

IsArray(v) == v # Malformed

\* v.length
JsLength(v) == IF IsArray(v) THEN Len(v) ELSE Undefined

\* String.prototype.includes
Includes(s, sub) ==
    \E i \in 0..(Len(s) - Len(sub)) : SubSeq(s, i + 1, i + Len(sub)) = sub

\* s.split(".").pop(): the part after the last dot
RECURSIVE SplitPop(_)
SplitPop(s) ==
    IF \A i \in 1..Len(s) : s[i] # "."
    THEN s
    ELSE SplitPop(Tail(s))

\* String.prototype.startsWith
StartsWith(s, p) == Len(s) >= Len(p) /\ SubSeq(s, 1, Len(p)) = p

\* Array.prototype.includes on a tuple
Contains(seq, x) == \E i \in 1..Len(seq) : seq[i] = x

RECURSIVE SelectSeqBy(_, _)
\* seq.filter(x => x \in S), order kept
SelectSeqBy(seq, S) ==
    IF seq = <<>> THEN <<>>
    ELSE IF Head(seq) \in S
         THEN <<Head(seq)>> \o SelectSeqBy(Tail(seq), S)
         ELSE SelectSeqBy(Tail(seq), S)

Min(a, b) == IF a < b THEN a ELSE b

\* String.prototype.split(sep) for a one-character separator
RECURSIVE Split(_, _)
Split(s, sep) ==
    IF \A i \in 1..Len(s) : s[i] # sep
    THEN <<s>>
    ELSE LET k == CHOOSE i \in 1..Len(s) :
                      s[i] = sep /\ \A j \in 1..(i - 1) : s[j] # sep
         IN  <<SubSeq(s, 1, k - 1)>> \o Split(SubSeq(s, k + 1, Len(s)), sep)

\* String.prototype.trim (of the white space, only the blank is modelled)
RECURSIVE Trim(_)
Trim(s) ==
    IF s # <<>> /\ Head(s) = " " THEN Trim(Tail(s))
    ELSE IF s # <<>> /\ s[Len(s)] = " " THEN Trim(SubSeq(s, 1, Len(s) - 1))
    ELSE s


(***************************************************************************)
(* JSON values of a row (what the REST interface returns in a column)      *)
(***************************************************************************)

\* a value is  [type, s, b, frac] : typeof, the text of a string / the
\* decimal text of a number / the JSON text of an object, the boolean,
\* and whether a number has a fractional part
JsNull == [type |-> "null", s |-> <<>>, b |-> FALSE, frac |-> FALSE]
JsBoolean(b) == [type |-> "boolean", s |-> <<>>, b |-> b, frac |-> FALSE]
JsNumber(text, frac) ==
    [type |-> "number", s |-> text, b |-> FALSE, frac |-> frac]
JsString(text) == [type |-> "string", s |-> text, b |-> FALSE, frac |-> FALSE]
JsObject(json) == [type |-> "object", s |-> json, b |-> FALSE, frac |-> FALSE]

DigitChars == <<"0", "1", "2", "3", "4", "5", "6", "7", "8", "9">>

\* String(n) for a non-negative integer
RECURSIVE NumberToString(_)
NumberToString(n) ==
    IF n < 10 THEN <<DigitChars[n + 1]>>
    ELSE NumberToString(n \div 10) \o <<DigitChars[(n % 10) + 1]>>

\* \d
IsDigit(c) == c \in {"0", "1", "2", "3", "4", "5", "6", "7", "8", "9"}

\* [0-9a-f] under the i flag
IsHex(c) ==
    IsDigit(c) \/ c \in {"a", "b", "c", "d", "e", "f",
                         "A", "B", "C", "D", "E", "F"}

\* the characters of s at the positions of  shape  are digits ("d"),
\* hexadecimal digits ("h") or the literal character of the shape
MatchesShape(s, shape) ==
    /\ Len(s) >= Len(shape)
    /\ \A i \in 1..Len(shape) :
          CASE shape[i] = "d" -> IsDigit(s[i])
            [] shape[i] = "h" -> IsHex(s[i])
            [] OTHER -> s[i] = shape[i]

\* /^[0-9a-f]{8}-[0-9a-f]{4}-[1-5][0-9a-f]{3}-[89ab][0-9a-f]{3}-[0-9a-f]{12}$/i
IsUuid(s) ==
    /\ Len(s) = 36
    /\ MatchesShape(s, <<"h", "h", "h", "h", "h", "h", "h", "h", "-", "h", "h", "h", "h", "-", "h", "h", "h", "h", "-", "h", "h", "h", "h", "-", "h", "h", "h", "h", "h", "h", "h", "h", "h", "h", "h", "h">>)
    /\ s[15] \in {"1", "2", "3", "4", "5"}
    /\ s[20] \in {"8", "9", "a", "b", "A", "B"}

\* !isNaN(Date.parse(s)) for the strings of the model: the engine parses
\* the ISO form  YYYY-MM-DDTHH:MM:SS[.fff]Z  and none of the other strings
DateParses(s) ==
    /\ MatchesShape(s, <<"d", "d", "d", "d", "-", "d", "d", "-", "d", "d", "T", "d", "d", ":", "d", "d", ":", "d", "d">>)
    /\ \/ SubSeq(s, 20, Len(s)) = <<"Z">>
       \/ /\ Len(s) = 24
          /\ MatchesShape(SubSeq(s, 20, 24), <<".", "d", "d", "d", "Z">>)

\* /^\d{4}-\d{2}-\d{2}$/
IsDate(s) == Len(s) = 10 /\ MatchesShape(s, <<"d", "d", "d", "d", "-", "d", "d", "-", "d", "d">>)

\* /^\d{2}:\d{2}:\d{2}/
IsTime(s) == MatchesShape(s, <<"d", "d", ":", "d", "d", ":", "d", "d">>)

\* variant of inferDataType: the length rule is tried before the time rule
inferDataType_LengthFirst(value) ==
    CASE value.type \in {"null", "undefined"} -> "TEXT"
      [] value.type = "boolean" -> "BOOLEAN"
      [] value.type = "number" -> IF value.frac THEN "NUMERIC" ELSE "INTEGER"
      [] value.type = "string" ->
            IF IsUuid(value.s) THEN "UUID"
            ELSE IF /\ Includes(value.s, <<"T">>)
                    /\ Includes(value.s, <<"Z">>)
                    /\ DateParses(value.s)
            THEN "TIMESTAMP WITH TIME ZONE"
            ELSE IF IsDate(value.s) THEN "DATE"
            ELSE IF Len(value.s) > 255 THEN "TEXT"
            ELSE IF Len(value.s) > 0 THEN "VARCHAR(255)"
            ELSE IF IsTime(value.s) THEN "TIME"
            ELSE "VARCHAR(255)"
      [] value.type = "object" -> "JSONB"
      [] OTHER -> "TEXT"

\* inferDataType of ProfessionalSupabaseBackup
inferDataType(value) ==
    CASE value.type \in {"null", "undefined"} -> "TEXT"
      [] value.type = "boolean" -> "BOOLEAN"
      [] value.type = "number" -> IF value.frac THEN "NUMERIC" ELSE "INTEGER"
      [] value.type = "string" ->
            IF IsUuid(value.s) THEN "UUID"
            ELSE IF /\ Includes(value.s, <<"T">>)
                    /\ Includes(value.s, <<"Z">>)
                    /\ DateParses(value.s)
            THEN "TIMESTAMP WITH TIME ZONE"
            ELSE IF IsDate(value.s) THEN "DATE"
            ELSE IF IsTime(value.s) THEN "TIME"
            ELSE IF Len(value.s) > 255 THEN "TEXT"
            ELSE "VARCHAR(255)"
      [] value.type = "object" -> "JSONB"
      [] OTHER -> "TEXT"

\* inferDataType of CompleteSupabaseBackup (src/backup.js)
CompleteInferDataType(value) ==
    CASE value.type \in {"null", "undefined"} -> "text"
      [] value.type = "boolean" -> "boolean"
      [] value.type = "number" -> IF value.frac THEN "numeric" ELSE "integer"
      [] value.type = "string" ->
            IF IsUuid(value.s) THEN "uuid"
            ELSE IF /\ Includes(value.s, <<"T">>)
                    /\ Includes(value.s, <<"Z">>)
                    /\ DateParses(value.s)
            THEN "timestamp with time zone"
            ELSE IF IsDate(value.s) THEN "date"
            ELSE IF IsTime(value.s) THEN "time"
            ELSE IF Includes(value.s, <<"@">>) /\ Includes(value.s, <<".">>)
            THEN "text"
            ELSE IF Len(value.s) > 255 THEN "text"
            ELSE "varchar(255)"
      [] value.type = "object" -> "jsonb"
      [] OTHER -> "text"

(***************************************************************************)
(* Program constants                                                       *)
(***************************************************************************)

commonTableNames ==
    << <<"u", "s", "e", "r", "s">>,
       <<"u", "s", "e", "r">>,
       <<"p", "r", "o", "f", "i", "l", "e", "s">>,
       <<"p", "r", "o", "f", "i", "l", "e">>,
       <<"a", "c", "c", "o", "u", "n", "t", "s">>,
       <<"a", "c", "c", "o", "u", "n", "t">>,
       <<"p", "o", "s", "t", "s">>,
       <<"p", "o", "s", "t">>,
       <<"a", "r", "t", "i", "c", "l", "e", "s">>,
       <<"a", "r", "t", "i", "c", "l", "e">>,
       <<"c", "o", "m", "m", "e", "n", "t", "s">>,
       <<"c", "o", "m", "m", "e", "n", "t">>,
       <<"t", "r", "a", "n", "s", "a", "c", "t", "i", "o", "n", "s">>,
       <<"t", "r", "a", "n", "s", "a", "c", "t", "i", "o", "n">>,
       <<"o", "r", "d", "e", "r", "s">>,
       <<"o", "r", "d", "e", "r">>,
       <<"p", "r", "o", "d", "u", "c", "t", "s">>,
       <<"p", "r", "o", "d", "u", "c", "t">>,
       <<"c", "a", "t", "e", "g", "o", "r", "i", "e", "s">>,
       <<"c", "a", "t", "e", "g", "o", "r", "y">>,
       <<"i", "t", "e", "m", "s">>,
       <<"i", "t", "e", "m">>,
       <<"d", "a", "t", "a">>,
       <<"r", "e", "c", "o", "r", "d", "s">>,
       <<"e", "n", "t", "r", "i", "e", "s">>,
       <<"l", "o", "g", "s">>,
       <<"e", "v", "e", "n", "t", "s">>,
       <<"n", "o", "t", "i", "f", "i", "c", "a", "t", "i", "o", "n", "s">>,
       <<"s", "e", "t", "t", "i", "n", "g", "s">> >>

excludeDataTables ==
    << <<"a", "u", "t", "h", ".", "u", "s", "e", "r", "s">>,
       <<"a", "u", "t", "h", ".", "s", "e", "s", "s", "i", "o", "n", "s">>,
       <<"a", "u", "t", "h", ".", "r", "e", "f", "r", "e", "s", "h", "_", "t", "o", "k", "e", "n", "s">>,
       <<"a", "u", "t", "h", ".", "i", "n", "s", "t", "a", "n", "c", "e", "s">>,
       <<"a", "u", "t", "h", ".", "a", "u", "d", "i", "t", "_", "l", "o", "g", "_", "e", "n", "t", "r", "i", "e", "s">>,
       <<"a", "u", "t", "h", ".", "f", "l", "o", "w", "_", "s", "t", "a", "t", "e">>,
       <<"a", "u", "t", "h", ".", "i", "d", "e", "n", "t", "i", "t", "i", "e", "s">>,
       <<"s", "t", "o", "r", "a", "g", "e", ".", "o", "b", "j", "e", "c", "t", "s">>,
       <<"s", "t", "o", "r", "a", "g", "e", ".", "b", "u", "c", "k", "e", "t", "s">>,
       <<"s", "t", "o", "r", "a", "g", "e", ".", "m", "i", "g", "r", "a", "t", "i", "o", "n", "s">>,
       <<"r", "e", "a", "l", "t", "i", "m", "e", ".", "s", "u", "b", "s", "c", "r", "i", "p", "t", "i", "o", "n">>,
       <<"r", "e", "a", "l", "t", "i", "m", "e", ".", "s", "c", "h", "e", "m", "a", "_", "m", "i", "g", "r", "a", "t", "i", "o", "n", "s">>,
       <<"p", "g", "s", "o", "d", "i", "u", "m", ".", "k", "e", "y">>,
       <<"v", "a", "u", "l", "t", ".", "s", "e", "c", "r", "e", "t", "s">> >>

excludeSchemas ==
    << <<"i", "n", "f", "o", "r", "m", "a", "t", "i", "o", "n", "_", "s", "c", "h", "e", "m", "a">>,
       <<"p", "g", "_", "c", "a", "t", "a", "l", "o", "g">>,
       <<"p", "g", "_", "t", "o", "a", "s", "t">>,
       <<"p", "g", "_", "t", "e", "m", "p", "_", "1">>,
       <<"p", "g", "_", "t", "o", "a", "s", "t", "_", "t", "e", "m", "p", "_", "1">>,
       <<"a", "u", "t", "h">>,
       <<"s", "t", "o", "r", "a", "g", "e">>,
       <<"r", "e", "a", "l", "t", "i", "m", "e">>,
       <<"s", "u", "p", "a", "b", "a", "s", "e", "_", "f", "u", "n", "c", "t", "i", "o", "n", "s">>,
       <<"s", "u", "p", "a", "b", "a", "s", "e", "_", "m", "i", "g", "r", "a", "t", "i", "o", "n", "s">>,
       <<"p", "g", "s", "o", "d", "i", "u", "m">>,
       <<"v", "a", "u", "l", "t">>,
       <<"g", "r", "a", "p", "h", "q", "l">>,
       <<"g", "r", "a", "p", "h", "q", "l", "_", "p", "u", "b", "l", "i", "c">> >>

\* const chunkSize = 1000 (rows per range read)
chunkSize == 1000

\* BACKUP_CONFIG: the defaults that the constructor merges the options into
BACKUP_CONFIG ==
    [ includeViews |-> TRUE, includeFunctions |-> TRUE,
      includeTriggers |-> TRUE, includePolicies |-> TRUE,
      includeIndexes |-> TRUE, includeSequences |-> TRUE,
      includeEnums |-> TRUE, includeData |-> TRUE,
      includeTables |-> TRUE,
      excludeSchemas |-> excludeSchemas,
      excludeDataTables |-> excludeDataTables,
      exportFormats |-> <<"sql", "json", "csv">>,
      maxRowsPerTable |-> 100000,
      includeDropStatements |-> TRUE, generateReadme |-> TRUE ]

(***************************************************************************)
(* Names used by the modelled databases                                    *)
(***************************************************************************)

users == <<"u", "s", "e", "r", "s">>
orders == <<"o", "r", "d", "e", "r", "s">>
invoices == <<"i", "n", "v", "o", "i", "c", "e", "s">>
sessions == <<"s", "e", "s", "s", "i", "o", "n", "s">>
ghost == <<"g", "h", "o", "s", "t">>
posts == <<"p", "o", "s", "t", "s">>
audit_log == <<"a", "u", "d", "i", "t", ".", "l", "o", "g">>
comments == <<"c", "o", "m", "m", "e", "n", "t", "s">>
rpc_version == <<"r", "p", "c", "_", "v", "e", "r", "s", "i", "o", "n">>
version == <<"v", "e", "r", "s", "i", "o", "n">>
exec_sql == <<"e", "x", "e", "c", "_", "s", "q", "l">>
increment_count == <<"i", "n", "c", "r", "e", "m", "e", "n", "t", "_", "c", "o", "u", "n", "t">>
orders_owner_idx == orders \o <<"_", "o", "w", "n", "e", "r", "_", "i", "d", "x">>
orders_pkey == orders \o <<"_", "p", "k", "e", "y">>
public == "public"
app == "app"

\* the public tables a modelled database may hold, in ascending name order
TableNames ==
    << audit_log, comments, invoices, orders, posts, sessions, users >>

\* "/rpc/" + name
RpcPath(name) == <<"/", "r", "p", "c", "/">> \o name

(***************************************************************************)
(* The remote service: catalog (exec_sql), resource listing, table reads   *)
(***************************************************************************)

Categories ==
    { "schemas", "tables", "columns", "functions", "views", "triggers",
      "policies", "indexes", "enums", "sequences" }

\* what the privileged query of one category comes back with:
\*   rows        exec_sql via the client answers with the rows
\*   direct      the client call fails, the direct POST answers with the rows
\*   empty       exec_sql answers with no rows
\*   malformed   exec_sql answers with a non-array result
\*   unavailable no exec_sql path answers
CatalogOutcomes == { "rows", "direct", "empty", "malformed", "unavailable" }

CountModes == { "exact", "null", "error", "throw" }

\* ok: every read answers; error / throw: every read fails;
\* page1error, page2error, page2throw: that range read of an extraction
\* fails; cap500: the server returns at most 500 rows per request
ReadModes ==
    { "ok", "error", "throw", "page1error", "page2error", "page2throw",
      "cap500" }

NoError == ""

\* HEAD request with count=exact:  { count, error }  or an exception
HeadCount(r, n) ==
    IF n \notin DOMAIN r.db
    THEN [count |-> Null, error |-> "relation does not exist", thrown |-> FALSE]
    ELSE CASE r.db[n].count = "exact" ->
                [count |-> r.db[n].rows, error |-> NoError, thrown |-> FALSE]
           [] r.db[n].count = "null" ->
                [count |-> Null, error |-> NoError, thrown |-> FALSE]
           [] r.db[n].count = "error" ->
                [count |-> Null, error |-> "count failed", thrown |-> FALSE]
           [] OTHER ->
                [count |-> Null, error |-> NoError, thrown |-> TRUE]

\* the rows at 0-based positions from..to of a table of  rows  rows,
\* at most  cap  of them
RowsBetween(rows, from, to, cap) ==
    LET last == Min(Min(to + 1, rows), from + cap)
    IN  [i \in 1..(IF last > from THEN last - from ELSE 0) |-> from + i]

ServerCap(r, n) == IF r.db[n].read = "cap500" THEN 500 ELSE 1000000

\* select("*").limit(k):  { data, error }  or an exception
SelectLimit(r, n, k) ==
    IF n \notin DOMAIN r.db
    THEN [data |-> <<>>, error |-> "relation does not exist", thrown |-> FALSE]
    ELSE CASE r.db[n].read = "error" ->
                [data |-> <<>>, error |-> "permission denied", thrown |-> FALSE]
           [] r.db[n].read = "throw" ->
                [data |-> <<>>, error |-> NoError, thrown |-> TRUE]
           [] OTHER ->
                [data |-> RowsBetween(r.db[n].rows, 0, k - 1, ServerCap(r, n)),
                 error |-> NoError, thrown |-> FALSE]

\* select("*").range(from, to), the call-th range read of one extraction
SelectRange(r, n, from, to, call) ==
    IF n \notin DOMAIN r.db
    THEN [data |-> <<>>, error |-> "relation does not exist", thrown |-> FALSE]
    ELSE CASE r.db[n].read = "error"
              \/ (r.db[n].read = "page1error" /\ call = 1)
              \/ (r.db[n].read = "page2error" /\ call = 2) ->
                [data |-> <<>>, error |-> "read failed", thrown |-> FALSE]
           [] r.db[n].read = "throw"
              \/ (r.db[n].read = "page2throw" /\ call = 2) ->
                [data |-> <<>>, error |-> NoError, thrown |-> TRUE]
           [] OTHER ->
                [data |-> RowsBetween(r.db[n].rows, from, to, ServerCap(r, n)),
                 error |-> NoError, thrown |-> FALSE]

\* one entry of the request log
Request(kind, target, from, to) ==
    [kind |-> kind, target |-> target, from |-> from, to |-> to]

Log(self, kind, target, from, to) ==
    [self EXCEPT !.requests = Append(@, Request(kind, target, from, to))]

(***************************************************************************)
(* Data extraction (ProfessionalSupabaseBackup)                            *)
(***************************************************************************)

\* this.results.data[key] = value
SetData(self, key, value) ==
    [self EXCEPT !.results.data =
        [k \in (DOMAIN @) \cup {key} |-> IF k = key THEN value ELSE @[k]]]

\* one line of results.errors / results.warnings
LogLine(tag, target, message) ==
    [tag |-> tag, target |-> target, message |-> message]

PushError(self, line) ==
    [self EXCEPT !.results.errors = Append(@, line)]

PushWarning(self, line) ==
    [self EXCEPT !.results.warnings = Append(@, line)]

\* the excludeDataTables test of backupTableData
\* variant of IsExcluded: only a name equal to a whole entry is excluded
IsExcluded_ExactOnly(cfg, tableName) ==
    \E i \in 1..Len(cfg.excludeDataTables) :
        cfg.excludeDataTables[i] = tableName

IsExcluded(cfg, tableName) ==
    \E i \in 1..Len(cfg.excludeDataTables) :
        LET excluded == cfg.excludeDataTables[i]
        IN  \/ Includes(tableName, SplitPop(excluded))
            \/ Includes(excluded, tableName)

\* variant of FetchChunks: fetched advances by the size of the window asked
\* for, not by the number of rows received
RECURSIVE FetchChunks_FixedStep(_, _, _, _, _, _, _)
FetchChunks_FixedStep(r, self, tableName, maxRows, allData, fetched, call) ==
    IF ~(fetched < maxRows)
    THEN [self |-> self, allData |-> allData, thrown |-> FALSE]
    ELSE LET currentChunkSize == Min(chunkSize, maxRows - fetched)
             to == fetched + currentChunkSize - 1
             resp == SelectRange(r, tableName, fetched, to, call)
             self1 == Log(self, "range", tableName, fetched, to)
         IN  IF resp.thrown
             THEN [self |-> self1, allData |-> allData, thrown |-> TRUE]
             ELSE IF resp.error # NoError \/ Len(resp.data) = 0
             THEN [self |-> self1, allData |-> allData, thrown |-> FALSE]
             ELSE FetchChunks_FixedStep(r, self1, tableName, maxRows,
                                        allData \o resp.data,
                                        fetched + currentChunkSize, call + 1)

\* the while (fetched < maxRows) loop; call numbers the range reads
RECURSIVE FetchChunks(_, _, _, _, _, _, _)
FetchChunks(r, self, tableName, maxRows, allData, fetched, call) ==
    IF ~(fetched < maxRows)
    THEN [self |-> self, allData |-> allData, thrown |-> FALSE]
    ELSE LET currentChunkSize == Min(chunkSize, maxRows - fetched)
             to == fetched + currentChunkSize - 1
             resp == SelectRange(r, tableName, fetched, to, call)
             self1 == Log(self, "range", tableName, fetched, to)
         IN  IF resp.thrown
             THEN [self |-> self1, allData |-> allData, thrown |-> TRUE]
             ELSE IF resp.error # NoError \/ Len(resp.data) = 0
             THEN [self |-> self1, allData |-> allData, thrown |-> FALSE]
             ELSE FetchChunks(r, self1, tableName, maxRows,
                              allData \o resp.data,
                              fetched + Len(resp.data), call + 1)

\* the catch block of backupTableData
\* variant of the catch block: the error entry replaces results.data
TableDataCatch_Wipe(self, tableName) ==
    [self |-> PushError(
                 [self EXCEPT !.results.data =
                                 (tableName :> [error |-> "exception"])],
                 LogLine("Data backup", tableName, "exception")),
     ret |-> 0]

TableDataCatch(self, tableName) ==
    [self |-> PushError(SetData(self, tableName, [error |-> "exception"]),
                        LogLine("Data backup", tableName, "exception")),
     ret |-> 0]

\* backupTableData from "Apply limits" on, count # 0
\* variant of FetchAndStore: maxRows is the count, without the cap
FetchAndStore_NoCap(r, cfg, self, tableName, count) ==
    LET maxRows == ToNumber(count)
        Store(f) ==
            IF f.thrown
            THEN TableDataCatch(f.self, tableName)
            ELSE [self |-> SetData(f.self, tableName,
                              [data |-> f.allData,
                               rowCount |-> Len(f.allData),
                               totalRows |-> count,
                               wasLimited |->
                                   ToNumber(count) > cfg.maxRowsPerTable]),
                  ret |-> Len(f.allData)]
    IN  Store(FetchChunks(r, self, tableName, maxRows, <<>>, 0, 1))

FetchAndStore(r, cfg, self, tableName, count) ==
    LET maxRows == Min(ToNumber(count), cfg.maxRowsPerTable)
        Store(f) ==
            IF f.thrown
            THEN TableDataCatch(f.self, tableName)
            ELSE [self |-> SetData(f.self, tableName,
                              [data |-> f.allData,
                               rowCount |-> Len(f.allData),
                               totalRows |-> count,
                               wasLimited |->
                                   ToNumber(count) > cfg.maxRowsPerTable]),
                  ret |-> Len(f.allData)]
    IN  Store(FetchChunks(r, self, tableName, maxRows, <<>>, 0, 1))

\* backupTableData after the count request: probe when count === 0
ProbeAndFetch(r, cfg, self, tableName, count) ==
    IF count = 0
    THEN LET p == SelectLimit(r, tableName, 1)
             self1 == Log(self, "select", tableName, 0, 0)
         IN  IF p.thrown
             THEN TableDataCatch(self1, tableName)
             ELSE IF p.error # NoError
             THEN [self |-> SetData(self1, tableName, [error |-> p.error]),
                   ret |-> 0]
             ELSE IF Len(p.data) = 0
             THEN [self |-> SetData(self1, tableName,
                                    [data |-> <<>>, rowCount |-> 0]),
                   ret |-> 0]
             ELSE FetchAndStore(r, cfg, self1, tableName, Len(p.data))
    ELSE FetchAndStore(r, cfg, self, tableName, count)

backupTableData(r, cfg, self, table) ==
    LET tableName == table.table_name
    IN  IF IsExcluded(cfg, tableName)
        THEN [self |-> SetData(self, tableName,
                               [skipped |-> TRUE, reason |-> "excluded table"]),
              ret |-> 0]
        ELSE LET c == HeadCount(r, tableName)
                 self1 == Log(self, "count", tableName, 0, 0)
                 count == IF ~c.thrown /\ c.error = NoError THEN c.count ELSE 0
             IN  ProbeAndFetch(r, cfg, self1, tableName, count)

\* the for loop of backupAllData from index i on
RECURSIVE BackupTablesFrom(_, _, _, _, _)
BackupTablesFrom(r, cfg, self, i, totalRowsBackedUp) ==
    IF ~(i <= JsLength(self.results.schema.tables))
    THEN [self |-> self, total |-> totalRowsBackedUp]
    ELSE LET Rest(b) ==
                 BackupTablesFrom(r, cfg, b.self, i + 1,
                                  totalRowsBackedUp + b.ret)
         IN  Rest(backupTableData(r, cfg, self, self.results.schema.tables[i]))

backupAllData(r, cfg, self) ==
    IF ~cfg.includeData
    THEN self
    ELSE LET Store(b) ==
                 [b.self EXCEPT !.results.statistics.totalRows = b.total]
         IN  Store(BackupTablesFrom(r, cfg, self, 1, 0))

(***************************************************************************)
(* Catalog contents of the modelled database                               *)
(***************************************************************************)

\* a row of the privileged table query
CatalogTable(schema, name, comment) ==
    [table_schema |-> schema, table_name |-> name,
     table_type |-> "BASE TABLE", table_catalog |-> "postgres",
     table_size |-> "8192 bytes", table_comment |-> comment]

\* a TableRecord built by the REST tiers
RestTable(name) ==
    [table_schema |-> public, table_name |-> name,
     table_type |-> "BASE TABLE", table_catalog |-> "postgres"]

RECURSIVE MapTables(_, _, _)
MapTables(schema, names, comment) ==
    IF names = <<>> THEN <<>>
    ELSE <<CatalogTable(schema, Head(names), comment)>>
         \o MapTables(schema, Tail(names), comment)

\* ORDER BY schema, name: the app schema sorts before public.  The orders
\* tables carry policies (one in schema app, two in schema public), and so
\* does the table audit.log, whose name holds a dot.
CatalogRows(r, cat) ==
    CASE cat = "schemas" ->
           (IF r.appTables = {} THEN <<>>
            ELSE <<[schema_name |-> app, schema_owner |-> "postgres"]>>)
           \o (IF DOMAIN r.db = {} THEN <<>>
               ELSE <<[schema_name |-> public, schema_owner |-> "postgres"]>>)
      [] cat = "tables" ->
           MapTables(app, SelectSeqBy(TableNames, r.appTables), r.comment)
           \o MapTables(public, SelectSeqBy(TableNames, DOMAIN r.db),
                        r.comment)
      [] cat = "functions" ->
           << [routine_schema |-> public, routine_name |-> increment_count,
               complete_definition |-> "complete"],
              [routine_schema |-> public, routine_name |-> version,
               complete_definition |-> ""] >>
      [] cat = "views" ->
           << [view_schema |-> public, view_name |-> "v_orders"] >>
      [] cat = "triggers" ->
           << [trigger_schema |-> public, trigger_name |-> "t_orders",
               event_object_schema |-> public,
               event_object_table |-> orders] >>
      [] cat = "policies" ->
           (IF orders \in r.appTables
            THEN << [schemaname |-> app, tablename |-> orders,
                     policyname |-> "staff_only", cmd |-> "ALL",
                     qual |-> "is_staff()", permissive |-> "PERMISSIVE"] >>
            ELSE <<>>)
           \o (IF audit_log \in DOMAIN r.db
               THEN << [schemaname |-> public, tablename |-> audit_log,
                        policyname |-> "audit_read", cmd |-> "SELECT",
                        qual |-> "true", permissive |-> "PERMISSIVE"] >>
               ELSE <<>>)
           \o (IF orders \in DOMAIN r.db
               THEN << [schemaname |-> public, tablename |-> orders,
                        policyname |-> "owner_only", cmd |-> "ALL",
                        qual |-> "auth.uid() = owner",
                        permissive |-> "PERMISSIVE"],
                       [schemaname |-> public, tablename |-> orders,
                        policyname |-> "read_all", cmd |-> "SELECT",
                        qual |-> "true", permissive |-> "PERMISSIVE"] >>
               ELSE <<>>)
      [] cat = "indexes" ->
           << [schemaname |-> public, tablename |-> orders,
               indexname |-> orders_owner_idx],
              [schemaname |-> public, tablename |-> orders,
               indexname |-> orders_pkey] >>
      [] cat = "enums" ->
           << [schema_name |-> public, enum_name |-> "status",
               enum_values |-> <<"open", "closed">>] >>
      [] cat = "sequences" ->
           << [sequence_schema |-> public, sequence_name |-> "orders_id_seq"] >>
      [] OTHER -> <<>>

\* the catalog column rows of a table (every modelled table has the same
\* two columns)
ColumnRows(tableName) ==
    << [column_name |-> "id", data_type |-> "integer",
        ordinal_position |-> 1, is_nullable |-> "NO"],
       [column_name |-> "payload", data_type |-> "text",
        ordinal_position |-> 2, is_nullable |-> "YES",
        column_comment |-> "free text"] >>

\* Object.keys(row) of a row read through the REST interface
RowKeys == <<"id", "payload">>

\* the row at 1-based position i of table n, as the REST interface returns
\* it: the rows at the positions r.nullRows hold NULL in column payload
Row(r, n, i) ==
    [id |-> JsNumber(NumberToString(i), FALSE),
     payload |-> IF i \in r.nullRows THEN JsNull ELSE r.payload]

\* Object.keys(sampleRow).map((colName, index) => ({ ... }))
InferredColumns(sampleRow) ==
    [index \in 1..Len(RowKeys) |->
        [column_name |-> RowKeys[index],
         data_type |-> inferDataType(sampleRow[RowKeys[index]]),
         ordinal_position |-> index,
         is_nullable |->
             IF sampleRow[RowKeys[index]] = JsNull THEN "YES" ELSE "NO"]]

\* Object.keys(spec.definitions) of GET /rest/v1/
Definitions(r) == SelectSeqBy(TableNames, DOMAIN r.db) \o <<rpc_version>>

\* Object.keys(spec.paths) of GET /rest/v1/
Paths(r) == r.rpcPaths

(***************************************************************************)
(* Table discovery                                                         *)
(***************************************************************************)

SetTables(self, tables) ==
    [self EXCEPT !.results.schema.tables = tables,
                 !.results.statistics.totalTables = JsLength(tables)]

\* Method 1 of discoverTablesREST: the forEach over spec.definitions
RECURSIVE OpenApiTables(_, _)
OpenApiTables(cfg, keys) ==
    IF keys = <<>> THEN <<>>
    ELSE (IF /\ ~StartsWith(Head(keys), <<"r", "p", "c", "_">>)
             /\ ~Contains(cfg.excludeSchemas, Head(keys))
          THEN <<RestTable(Head(keys))>>
          ELSE <<>>)
         \o OpenApiTables(cfg, Tail(keys))

\* Method 2 of discoverTablesREST: the loop over commonTableNames from i on
RECURSIVE ProbeCommon(_, _, _, _)
ProbeCommon(r, self, i, discoveredTables) ==
    IF i > Len(commonTableNames)
    THEN [self |-> self, tables |-> discoveredTables]
    ELSE LET tableName == commonTableNames[i]
             p == SelectLimit(r, tableName, 0)
             self1 == Log(self, "probe", tableName, 0, 0)
         IN  ProbeCommon(r, self1, i + 1,
                 IF ~p.thrown /\ p.error = NoError
                 THEN Append(discoveredTables, RestTable(tableName))
                 ELSE discoveredTables)

\* Method 4 of discoverTablesREST: the loop over MANUAL_TABLES from i on
RECURSIVE ProbeManual(_, _, _, _, _)
ProbeManual(r, manual, self, i, manualTables) ==
    IF i > Len(manual)
    THEN [self |-> self, tables |-> manualTables]
    ELSE LET tableName == manual[i]
             p == SelectLimit(r, tableName, 0)
             self1 == Log(self, "manual", tableName, 0, 0)
         IN  IF p.thrown
             THEN ProbeManual(r, manual, self1, i + 1, manualTables)
             ELSE IF p.error = NoError
             THEN ProbeManual(r, manual, self1, i + 1,
                              Append(manualTables, RestTable(tableName)))
             ELSE ProbeManual(r, manual,
                      PushWarning(self1,
                          LogLine("Manual table", tableName, p.error)),
                      i + 1, manualTables)

\* discoverTablesREST after Method 1 came back without tables
ProbeTiers(r, manual, self) ==
    LET Manual(self1, m) ==
            IF Len(manual) > 0 /\ Len(m.tables) > 0
            THEN [self |-> SetTables(m.self, m.tables), ret |-> m.tables]
            ELSE [self |-> PushWarning(
                              IF Len(manual) > 0 THEN m.self ELSE self1,
                              LogLine("No tables discovered", <<>>, "")),
                  ret |-> <<>>]
        Root(self1) == Manual(self1, ProbeManual(r, manual, self1, 1, <<>>))
        Common(c) ==
            IF Len(c.tables) > 0
            THEN [self |-> SetTables(c.self, c.tables), ret |-> c.tables]
            ELSE Root(Log(c.self, "root", <<>>, 0, 0))
    IN  Common(ProbeCommon(r, self, 1, <<>>))

\* variant of discoverTablesREST: the name probe runs after the OpenAPI
\* listing and its tables are appended
discoverTablesREST_Merging(r, cfg, manual, self) ==
    LET self1 == Log(self, "openapi", <<>>, 0, 0)
        tables == IF r.openapi = "ok"
                  THEN OpenApiTables(cfg, Definitions(r))
                  ELSE <<>>
        Merge(c) ==
            [self |-> SetTables(c.self, tables \o c.tables),
             ret |-> tables \o c.tables]
    IN  IF Len(tables) > 0
        THEN Merge(ProbeCommon(r, self1, 1, <<>>))
        ELSE ProbeTiers(r, manual, self1)

discoverTablesREST(r, cfg, manual, self) ==
    LET self1 == Log(self, "openapi", <<>>, 0, 0)
        tables == IF r.openapi = "ok"
                  THEN OpenApiTables(cfg, Definitions(r))
                  ELSE <<>>
    IN  IF Len(tables) > 0
        THEN [self |-> SetTables(self1, tables), ret |-> tables]
        ELSE ProbeTiers(r, manual, self1)

(***************************************************************************)
(* executeQuery and its fallbacks                                          *)
(***************************************************************************)

\* which of the strings tested by executeQuery / executeInformationSchemaQuery
\* the SQL text of a category's query contains, apart from the embedded
\* excludeSchemas list
QueryText ==
    [ schemas   |-> {"information_schema"},
      tables    |-> {"information_schema", "information_schema.tables"},
      columns   |-> {"information_schema", "information_schema.columns",
                     "pg_catalog"},
      functions |-> {"information_schema"},
      views     |-> {"information_schema"},
      triggers  |-> {"information_schema"},
      policies  |-> {},
      indexes   |-> {},
      enums     |-> {},
      sequences |-> {"information_schema"} ]

\* query.includes(needle); every query but the column query embeds the
\* quoted entries of config.excludeSchemas
QueryIncludes(cfg, cat, needle) ==
    \/ needle \in QueryText[cat]
    \/ /\ cat # "columns"
       /\ needle = "information_schema"
       /\ Contains(cfg.excludeSchemas,
                   <<"i", "n", "f", "o", "r", "m", "a", "t", "i", "o", "n",
                     "_", "s", "c", "h", "e", "m", "a">>)
    \/ /\ cat # "columns"
       /\ needle = "pg_catalog"
       /\ Contains(cfg.excludeSchemas,
                   <<"p", "g", "_", "c", "a", "t", "a", "l", "o", "g">>)

getTableColumnsREST(r, self, tableName) ==
    LET p == SelectLimit(r, tableName, 1)
        self1 == Log(self, "select", tableName, 0, 0)
    IN  [self |-> self1,
         value |-> IF ~p.thrown /\ Len(p.data) > 0
                   THEN InferredColumns(Row(r, tableName, p.data[1]))
                   ELSE <<>>,
         thrown |-> FALSE]

executeInformationSchemaQuery(r, cfg, manual, self, cat, tableName) ==
    IF QueryIncludes(cfg, cat, "information_schema.tables")
    THEN LET Found(d) == [self |-> d.self, value |-> d.ret, thrown |-> FALSE]
         IN  Found(discoverTablesREST(r, cfg, manual, self))
    ELSE IF QueryIncludes(cfg, cat, "information_schema.columns")
    THEN getTableColumnsREST(r, self, tableName)
    ELSE [self |-> self, value |-> <<>>, thrown |-> TRUE]

\* the rows exec_sql answers with for a category's query
QueryRows(r, cat, tableName) ==
    IF cat = "columns" THEN ColumnRows(tableName) ELSE CatalogRows(r, cat)

\* Method 4 of executeQuery
QueryFailed(self, cat) ==
    [self |-> PushWarning(self, LogLine("Query execution failed", <<>>, cat)),
     value |-> <<>>]

executeQuery(r, cfg, manual, self, cat, tableName) ==
    LET self1 == Log(self, "exec_sql", <<>>, 0, 0)
        self2 == Log(self1, "exec_sql_direct", <<>>, 0, 0)
        Method3(q) ==
            IF q.thrown
            THEN QueryFailed(q.self, cat)
            ELSE [self |-> q.self, value |-> q.value]
    IN  CASE r.catalog[cat] = "rows" ->
               [self |-> self1, value |-> QueryRows(r, cat, tableName)]
          [] r.catalog[cat] = "empty" ->
               [self |-> self1, value |-> <<>>]
          [] r.catalog[cat] = "malformed" ->
               [self |-> self1, value |-> Malformed]
          [] r.catalog[cat] = "direct" ->
               [self |-> self2, value |-> QueryRows(r, cat, tableName)]
          [] OTHER ->
               IF \/ QueryIncludes(cfg, cat, "information_schema")
                  \/ QueryIncludes(cfg, cat, "pg_catalog")
               THEN Method3(executeInformationSchemaQuery(
                                r, cfg, manual, self2, cat, tableName))
               ELSE QueryFailed(self2, cat)

(***************************************************************************)
(* Phases 1-2: schemas and tables                                          *)
(***************************************************************************)

SetSchemas(self, schemas) ==
    [self EXCEPT !.results.schema.schemas = schemas,
                 !.results.statistics.totalSchemas = Len(schemas)]

PublicSchema == [schema_name |-> public, schema_owner |-> "postgres"]

\* variant of discoverSchemas: the result of the query is stored as it is
discoverSchemas_AsQueried(r, cfg, manual, self) ==
    LET Store(q) ==
            IF ~IsArray(q.value)
            THEN PushWarning(SetSchemas(q.self, <<PublicSchema>>),
                     LogLine("Schema discovery fallback used", <<>>,
                             "TypeError"))
            ELSE SetSchemas(q.self, q.value)
    IN  Store(executeQuery(r, cfg, manual, self, "schemas", <<>>))

discoverSchemas(r, cfg, manual, self) ==
    LET Store(q) ==
            IF ~IsArray(q.value)
            THEN PushWarning(SetSchemas(q.self, <<PublicSchema>>),
                     LogLine("Schema discovery fallback used", <<>>,
                             "TypeError"))
            ELSE IF \E i \in 1..Len(q.value) : q.value[i].schema_name = public
            THEN SetSchemas(q.self, q.value)
            ELSE SetSchemas(q.self, <<PublicSchema>> \o q.value)
    IN  Store(executeQuery(r, cfg, manual, self, "schemas", <<>>))

discoverTables(r, cfg, manual, self) ==
    LET Store(q) ==
            IF JsLength(q.value) = 0
            THEN discoverTablesREST(r, cfg, manual, q.self).self
            ELSE IF IsArray(q.value)
            THEN SetTables(q.self, q.value)
            ELSE discoverTablesREST(r, cfg, manual,
                                    SetTables(q.self, q.value)).self
    IN  Store(executeQuery(r, cfg, manual, self, "tables", <<>>))

(***************************************************************************)
(* Phase 3: table structures                                               *)
(***************************************************************************)

\* the body of the for-of loop of analyzeTableStructures for tables[i..]
RECURSIVE AnalyzeFrom(_, _, _, _, _, _)
AnalyzeFrom(r, cfg, manual, self, i, tableStructures) ==
    IF i > Len(self.results.schema.tables)
    THEN [self |-> self, structures |-> tableStructures]
    ELSE LET table == self.results.schema.tables[i]
             Sample(self1, p) ==
                 IF p.thrown
                 THEN AnalyzeFrom(r, cfg, manual,
                          PushError(self1, LogLine("Table analysis",
                              table.table_name, "exception")),
                          i + 1, tableStructures)
                 ELSE IF Len(p.data) > 0
                 THEN AnalyzeFrom(r, cfg, manual, self1, i + 1,
                          Append(tableStructures,
                              [columns |->
                                   InferredColumns(
                                       Row(r, table.table_name, p.data[1])),
                               column_count |-> Len(RowKeys)]
                              @@ table))
                 ELSE AnalyzeFrom(r, cfg, manual, self1, i + 1,
                                  tableStructures)
             Columns(q) ==
                 IF JsLength(q.value) = 0
                 THEN Sample(Log(q.self, "select", table.table_name, 0, 0),
                             SelectLimit(r, table.table_name, 1))
                 ELSE AnalyzeFrom(r, cfg, manual, q.self, i + 1,
                          Append(tableStructures,
                              [columns |-> q.value,
                               column_count |-> JsLength(q.value)] @@ table))
         IN  Columns(executeQuery(r, cfg, manual, self, "columns",
                                  table.table_name))

\* for (const table of this.results.schema.tables) throws on a non-array
analyzeTableStructures(r, cfg, manual, self) ==
    IF ~IsArray(self.results.schema.tables)
    THEN [self |-> self, thrown |-> TRUE]
    ELSE LET Store(a) ==
                 [self |-> [a.self EXCEPT
                               !.results.schema.tableStructures = a.structures],
                  thrown |-> FALSE]
         IN  Store(AnalyzeFrom(r, cfg, manual, self, 1, <<>>))

(***************************************************************************)
(* Phase 4: functions                                                      *)
(***************************************************************************)

SetFunctions(self, functions) ==
    [self EXCEPT !.results.schema.functions = functions,
                 !.results.statistics.totalFunctions = Len(functions)]

\* a record built by backupFunctionsFallback
DetectedFunction(funcName, how) ==
    [routine_schema |-> public, routine_name |-> funcName,
     routine_type |-> "FUNCTION", external_language |-> "plpgsql",
     full_definition |-> how]

\* the forEach over Object.keys(spec.paths)
RECURSIVE RpcFunctions(_)
RpcFunctions(paths) ==
    IF paths = <<>> THEN <<>>
    ELSE (IF /\ StartsWith(Head(paths), RpcPath(<<>>))
             /\ Head(paths) # RpcPath(exec_sql)
          THEN <<DetectedFunction(
                    SubSeq(Head(paths), Len(RpcPath(<<>>)) + 1, Len(Head(paths))),
                    "Discovered via OpenAPI spec")>>
          ELSE <<>>)
         \o RpcFunctions(Tail(paths))

\* supabase.rpc("version"):  ok, an error naming a missing function, or throw
VersionRpc(r) ==
    CASE r.versionRpc = "ok" -> [error |-> NoError, thrown |-> FALSE]
      [] r.versionRpc = "missing" ->
           [error |-> "function does not exist", thrown |-> FALSE]
      [] r.versionRpc = "error" ->
           [error |-> "permission denied", thrown |-> FALSE]
      [] OTHER -> [error |-> NoError, thrown |-> TRUE]

backupFunctionsFallback(r, self) ==
    LET self1 == Log(self, "openapi", <<>>, 0, 0)
        fromSpec == IF r.openapi # "fail" THEN RpcFunctions(Paths(r)) ELSE <<>>
        v == VersionRpc(r)
        self2 == Log(self1, "rpc", version, 0, 0)
        detectedFunctions ==
            IF /\ ~v.thrown
               /\ v.error # "function does not exist"
               /\ ~\E i \in 1..Len(fromSpec) : fromSpec[i].routine_name = version
            THEN Append(fromSpec,
                        DetectedFunction(version, "Standard system function"))
            ELSE fromSpec
    IN  SetFunctions(self2, detectedFunctions)

\* functions.map(func => ({ ...func, full_definition: ... }))
EnhanceFunctions(functions) ==
    [i \in 1..Len(functions) |->
        [full_definition |->
            IF functions[i].complete_definition # ""
            THEN functions[i].complete_definition
            ELSE "built from parts"] @@ functions[i]]

backupFunctions(r, cfg, manual, self) ==
    IF ~cfg.includeFunctions
    THEN self
    ELSE LET Store(q) ==
                 IF IsArray(q.value)
                 THEN SetFunctions(q.self, EnhanceFunctions(q.value))
                 ELSE backupFunctionsFallback(r,
                          PushError(q.self,
                              LogLine("Function backup", <<>>, "TypeError")))
         IN  Store(executeQuery(r, cfg, manual, self, "functions", <<>>))

(***************************************************************************)
(* Phases 5-10: views, triggers, policies, indexes, enums, sequences       *)
(***************************************************************************)

backupViews(r, cfg, manual, self) ==
    IF ~cfg.includeViews
    THEN self
    ELSE LET Assigned(q) ==
                 [q.self EXCEPT
                     !.results.schema.views = q.value,
                     !.results.statistics.totalViews = JsLength(q.value)]
             Store(q) ==
                 IF IsArray(q.value)
                 THEN Assigned(q)
                 ELSE PushError(Assigned(q),
                                LogLine("View backup", <<>>, "TypeError"))
         IN  Store(executeQuery(r, cfg, manual, self, "views", <<>>))

backupTriggers(r, cfg, manual, self) ==
    IF ~cfg.includeTriggers
    THEN self
    ELSE LET Assigned(q) ==
                 [q.self EXCEPT
                     !.results.schema.triggers = q.value,
                     !.results.statistics.totalTriggers = JsLength(q.value)]
             Store(q) ==
                 IF IsArray(q.value)
                 THEN Assigned(q)
                 ELSE PushError(Assigned(q),
                                LogLine("Trigger backup", <<>>, "TypeError"))
         IN  Store(executeQuery(r, cfg, manual, self, "triggers", <<>>))

SetPolicies(self, policies) ==
    [self EXCEPT !.results.schema.policies = policies,
                 !.results.statistics.totalPolicies = JsLength(policies)]

\* the for-of loop of backupPoliciesFallback for tables[i..]
RECURSIVE InferPolicies(_, _, _, _)
InferPolicies(r, self, i, policies) ==
    IF i > Len(self.results.schema.tables)
    THEN [self |-> self, policies |-> policies]
    ELSE LET table == self.results.schema.tables[i]
             p == SelectLimit(r, table.table_name, 1)
             self1 == Log(self, "select", table.table_name, 0, 0)
         IN  InferPolicies(r, self1, i + 1,
                 IF ~p.thrown /\ p.error = NoError
                 THEN Append(policies,
                          [schemaname |-> table.table_schema,
                           tablename |-> table.table_name,
                           policyname |-> "public_read_access",
                           cmd |-> "SELECT", qual |-> "true",
                           permissive |-> "PERMISSIVE"])
                 ELSE policies)

backupPoliciesFallback(r, self) ==
    IF ~IsArray(self.results.schema.tables)
    THEN [self |-> self, thrown |-> TRUE]
    ELSE LET Store(f) ==
                 [self |-> SetPolicies(f.self, f.policies), thrown |-> FALSE]
         IN  Store(InferPolicies(r, self, 1, <<>>))

backupPolicies(r, cfg, manual, self) ==
    IF ~cfg.includePolicies
    THEN [self |-> self, thrown |-> FALSE]
    ELSE LET Store(q) ==
                 IF IsArray(q.value)
                 THEN [self |-> SetPolicies(q.self, q.value), thrown |-> FALSE]
                 ELSE backupPoliciesFallback(r,
                          PushError(SetPolicies(q.self, q.value),
                              LogLine("Policy backup", <<>>, "TypeError")))
         IN  Store(executeQuery(r, cfg, manual, self, "policies", <<>>))

backupIndexes(r, cfg, manual, self) ==
    IF ~cfg.includeIndexes
    THEN self
    ELSE LET Store(q) ==
                 [q.self EXCEPT
                     !.results.schema.indexes = q.value,
                     !.results.statistics.totalIndexes = JsLength(q.value)]
         IN  Store(executeQuery(r, cfg, manual, self, "indexes", <<>>))

\* enums.map(enumType => ({ ...enumType, definition: ... }))
EnhanceEnums(enums) ==
    [i \in 1..Len(enums) |-> [definition |-> "CREATE TYPE"] @@ enums[i]]

backupEnums(r, cfg, manual, self) ==
    IF ~cfg.includeEnums
    THEN self
    ELSE LET Store(q) ==
                 IF IsArray(q.value)
                 THEN [q.self EXCEPT
                         !.results.schema.enums = EnhanceEnums(q.value),
                         !.results.statistics.totalEnums = Len(q.value)]
                 ELSE PushError(q.self,
                                LogLine("Enum backup", <<>>, "TypeError"))
         IN  Store(executeQuery(r, cfg, manual, self, "enums", <<>>))

backupSequences(r, cfg, manual, self) ==
    IF ~cfg.includeSequences
    THEN self
    ELSE LET Store(q) ==
                 [q.self EXCEPT
                     !.results.schema.sequences = q.value,
                     !.results.statistics.totalSequences = JsLength(q.value)]
         IN  Store(executeQuery(r, cfg, manual, self, "sequences", <<>>))

(***************************************************************************)
(* Phase 12: the generated files                                           *)
(*                                                                         *)
(* A script is the sequence of its comment lines and statements.  An item  *)
(* keeps the section it was emitted in, the statement kind, the table      *)
(* reference as the template renders it, the interpolated free text (a     *)
(* comment, a name) that the schema-only filter scans, an opaque label     *)
(* for content that no code inspects, and the value tuples of an INSERT.   *)
(* Schema and column names are assumed to contain no dot, and no name a    *)
(* quote or a section title; a table name may contain a dot.               *)
(***************************************************************************)

\* const batchSize = 100 (rows per INSERT statement)
batchSize == 100

\* "schema"."table"
Qualified(schema, table) ==
    [schema |-> schema, table |-> table, qualified |-> TRUE]

\* "table"
Bare(table) == [schema |-> "", table |-> table, qualified |-> FALSE]

NoRef == [schema |-> "", table |-> <<>>, qualified |-> FALSE]

Item(section, kind, ref, what, text, tuples) ==
    [section |-> section, kind |-> kind, ref |-> ref, what |-> what,
     text |-> text, tuples |-> tuples]

\* the three-line heading of a section
Heading(section, title) == Item(section, "heading", NoRef, "", title, <<>>)

\* a comment line that interpolates  text
CommentLine(section, what, text) ==
    Item(section, "comment", NoRef, what, text, <<>>)

Statement(section, kind, ref, what) ==
    Item(section, kind, ref, what, <<>>, <<>>)

RECURSIVE Flatten(_)
\* [].concat(...seqs), joined by halves
Flatten(seqs) ==
    IF Len(seqs) = 0 THEN <<>>
    ELSE IF Len(seqs) = 1 THEN seqs[1]
    ELSE Flatten(SubSeq(seqs, 1, Len(seqs) \div 2))
         \o Flatten(SubSeq(seqs, (Len(seqs) \div 2) + 1, Len(seqs)))

\* s.replace(/c/g, rep) for a one-character pattern
ReplaceAll(s, c, rep) ==
    Flatten([i \in 1..Len(s) |-> IF s[i] = c THEN rep ELSE <<s[i]>>])

\* the literal of one value in an INSERT statement
SqlLiteral(val) ==
    CASE val.type \in {"null", "undefined"} -> <<"N", "U", "L", "L">>
      [] val.type = "string" ->
           <<"'">>
           \o ReplaceAll(ReplaceAll(val.s, "'", <<"'", "'">>),
                         "\\", <<"\\", "\\">>)
           \o <<"'">>
      [] val.type = "boolean" -> IF val.b THEN <<"t", "r", "u", "e">> ELSE <<"f", "a", "l", "s", "e">>
      [] val.type = "object" ->
           <<"'">> \o ReplaceAll(val.s, "'", <<"'", "'">>) \o <<"'", ":", ":", "j", "s", "o", "n", "b">>
      [] OTHER -> val.s

\* the field of one value in a CSV file
CsvField(val) ==
    CASE val.type \in {"null", "undefined"} -> <<>>
      [] val.type \in {"string", "object"} ->
           <<"\"">> \o ReplaceAll(val.s, "\"", <<"\"", "\"">>) \o <<"\"">>
      [] val.type = "boolean" -> IF val.b THEN <<"t", "r", "u", "e">> ELSE <<"f", "a", "l", "s", "e">>
      [] OTHER -> val.s

\* columns.map(col => literal of row[col]) for the rows at  positions
ValueTuples(r, tableName, positions) ==
    [k \in 1..Len(positions) |->
        [c \in 1..Len(RowKeys) |->
            SqlLiteral(Row(r, tableName, positions[k])[RowKeys[c]])]]

\* INSERT INTO "table" (columns) VALUES tuples;
InsertStatement(tableName, columns, tuples) ==
    [columns |-> columns]
    @@ Item("data", "INSERT INTO", Bare(tableName), "", <<>>, tuples)

\* variant of InsertBatches: a batch is data.slice(i, i + batchSize + 1)
RECURSIVE InsertBatches_Overlap(_, _, _, _)
InsertBatches_Overlap(r, tableName, data, i) ==
    IF ~(i < Len(data)) THEN <<>>
    ELSE << InsertStatement(tableName, RowKeys,
                ValueTuples(r, tableName,
                    SubSeq(data, i + 1,
                           Min(i + batchSize + 1, Len(data))))) >>
         \o InsertBatches_Overlap(r, tableName, data, i + batchSize)

\* for (let i = 0; i < data.length; i += batchSize): one INSERT per batch,
\* its column list Object.keys(data[0])
RECURSIVE InsertBatches(_, _, _, _)
InsertBatches(r, tableName, data, i) ==
    IF ~(i < Len(data)) THEN <<>>
    ELSE << InsertStatement(tableName, RowKeys,
                ValueTuples(r, tableName,
                    SubSeq(data, i + 1, Min(i + batchSize, Len(data))))) >>
         \o InsertBatches(r, tableName, data, i + batchSize)

\* tableData.data && Array.isArray(tableData.data) && length > 0
HasRows(tableData) == "data" \in DOMAIN tableData /\ Len(tableData.data) > 0

\* Object.keys(results.data): the keys in the order they were first set,
\* which is the order of the table list
RECURSIVE DataKeys(_, _, _)
DataKeys(self, i, seen) ==
    IF ~IsArray(self.results.schema.tables)
       \/ i > Len(self.results.schema.tables)
    THEN <<>>
    ELSE LET n == self.results.schema.tables[i].table_name
         IN  IF n \in DOMAIN self.results.data /\ n \notin seen
             THEN <<n>> \o DataKeys(self, i + 1, seen \cup {n})
             ELSE DataKeys(self, i + 1, seen)

RECURSIVE DataEntries(_, _, _)
DataEntries(r, self, keys) ==
    IF keys = <<>> THEN <<>>
    ELSE (IF HasRows(self.results.data[Head(keys)])
          THEN << CommentLine("data", "Data for table", Head(keys)) >>
               \o InsertBatches(r, Head(keys),
                                self.results.data[Head(keys)].data, 0)
          ELSE <<>>)
         \o DataEntries(r, self, Tail(keys))

\* the DATA section of the complete and of the data-only script
DataSection(r, self) ==
    IF DOMAIN self.results.data = {} THEN <<>>
    ELSE << Heading("data", <<"-", "-", " ", "D", "A", "T", "A">>) >>
         \o DataEntries(r, self, DataKeys(self, 1, {}))


\* list.forEach(x => { sql += F(x) })
Each(list, F(_)) == Flatten([i \in 1..Len(list) |-> F(list[i])])

\* String.prototype.endsWith
EndsWith(s, suffix) ==
    Len(s) >= Len(suffix)
    /\ SubSeq(s, Len(s) - Len(suffix) + 1, Len(s)) = suffix

\* tableInfo.table_comment, "" when the record has none
TableComment(tableInfo) ==
    IF "table_comment" \in DOMAIN tableInfo
    THEN tableInfo.table_comment ELSE <<>>

\* col.column_comment, "" when the record has none
ColumnComment(col) ==
    IF "column_comment" \in DOMAIN col THEN col.column_comment ELSE ""

\* the fixed head of the complete script
Preamble ==
    << Item("preamble", "banner", NoRef,
            "PROFESSIONAL SUPABASE DATABASE RESTORE SCRIPT", <<>>, <<>>),
       Statement("preamble", "SET", NoRef, "session_replication_role = replica"),
       Statement("preamble", "SET", NoRef, "client_min_messages = warning"),
       Statement("preamble", "BEGIN", NoRef, "") >>

Extensions ==
    << Statement("extensions", "CREATE EXTENSION", NoRef, "uuid-ossp"),
       Statement("extensions", "CREATE EXTENSION", NoRef, "pgcrypto"),
       Statement("extensions", "CREATE EXTENSION", NoRef, "pgjwt") >>

SchemasSection(self) ==
    IF ~(JsLength(self.results.schema.schemas) > 0) THEN <<>>
    ELSE << Heading("schemas", <<"-", "-", " ", "S", "C", "H", "E", "M", "A", "S">>) >>
         \o Each(self.results.schema.schemas,
                 LAMBDA schema :
                    IF schema.schema_name # "public"
                    THEN << Statement("schemas", "CREATE SCHEMA", NoRef,
                                      schema.schema_name) >>
                    ELSE <<>>)

EnumsSection(self) ==
    IF ~(JsLength(self.results.schema.enums) > 0) THEN <<>>
    ELSE << Heading("enums", <<"-", "-", " ", "E", "N", "U", "M", "S">>) >>
         \o Each(self.results.schema.enums,
                 LAMBDA enumType :
                    << Statement("enums", "definition", NoRef,
                                 enumType.definition) >>)

\* the columns whose definition ends in NOT NULL: col.is_nullable === "NO"
NotNullColumns(columns) ==
    LET declared == SelectSeq(columns, LAMBDA col : col.is_nullable = "NO")
    IN  [i \in 1..Len(declared) |-> declared[i].column_name]

\* CREATE TABLE IF NOT EXISTS ref ( column definitions );
CreateTable(ref, columns) ==
    [notNull |-> NotNullColumns(columns)]
    @@ Statement("tables", "CREATE TABLE", ref, "")

\* the statements of one table of results.schema.tableStructures
TableStatements(cfg, tableInfo) ==
    LET ref == Qualified(tableInfo.table_schema, tableInfo.table_name)
    IN  IF ~(JsLength(tableInfo.columns) > 0) THEN <<>>
        ELSE (IF cfg.includeDropStatements
              THEN << Statement("tables", "DROP TABLE", ref, "") >>
              ELSE <<>>)
             \o << CommentLine("tables", "Table", tableInfo.table_name) >>
             \o (IF TableComment(tableInfo) # <<>>
                 THEN << CommentLine("tables", "", TableComment(tableInfo)) >>
                 ELSE <<>>)
             \o << CreateTable(ref, tableInfo.columns) >>
             \o Each(tableInfo.columns,
                     LAMBDA col :
                        IF ColumnComment(col) # ""
                        THEN << Statement("tables", "COMMENT ON COLUMN", ref,
                                          col.column_name) >>
                        ELSE <<>>)
             \o (IF TableComment(tableInfo) # <<>>
                 THEN << Item("tables", "COMMENT ON TABLE", ref, "",
                              TableComment(tableInfo), <<>>) >>
                 ELSE <<>>)

TablesSection(cfg, self) ==
    IF ~(JsLength(self.results.schema.tableStructures) > 0) THEN <<>>
    ELSE << Heading("tables", <<"-", "-", " ", "T", "A", "B", "L", "E", "S">>) >>
         \o Each(self.results.schema.tableStructures,
                 LAMBDA tableInfo : TableStatements(cfg, tableInfo))

ViewsSection(self) ==
    IF ~(JsLength(self.results.schema.views) > 0) THEN <<>>
    ELSE << Heading("views", <<"-", "-", " ", "V", "I", "E", "W", "S">>) >>
         \o Each(self.results.schema.views,
                 LAMBDA view :
                    << CommentLine("views", "View", <<>>),
                       Statement("views", "CREATE OR REPLACE VIEW", NoRef,
                                 view.view_name) >>)

FunctionsSection(self) ==
    IF ~(JsLength(self.results.schema.functions) > 0) THEN <<>>
    ELSE << Heading("functions", <<"-", "-", " ", "F", "U", "N", "C", "T", "I", "O", "N", "S">>) >>
         \o Each(self.results.schema.functions,
                 LAMBDA func :
                    << CommentLine("functions", "Function", func.routine_name),
                       Statement("functions", "definition", NoRef,
                                 func.full_definition) >>)

TriggersSection(self) ==
    IF ~(JsLength(self.results.schema.triggers) > 0) THEN <<>>
    ELSE << Heading("triggers", <<"-", "-", " ", "T", "R", "I", "G", "G", "E", "R", "S">>) >>
         \o Each(self.results.schema.triggers,
                 LAMBDA trigger :
                    << CommentLine("triggers", "Trigger",
                                   trigger.event_object_table),
                       Statement("triggers", "CREATE TRIGGER",
                                 Qualified(trigger.event_object_schema,
                                           trigger.event_object_table),
                                 trigger.trigger_name) >>)

IndexesSection(self) ==
    IF ~(JsLength(self.results.schema.indexes) > 0) THEN <<>>
    ELSE << Heading("indexes", <<"-", "-", " ", "I", "N", "D", "E", "X", "E", "S">>) >>
         \o Each(self.results.schema.indexes,
                 LAMBDA index :
                    IF ~EndsWith(index.indexname, <<"_", "p", "k", "e", "y">>)
                    THEN << CommentLine("indexes", "Index", index.indexname),
                            Statement("indexes", "indexdef", NoRef, "") >>
                    ELSE <<>>)

\* `${p.schemaname}.${p.tablename}`: the schema name is one element of the
\* joined string (schema names are taken to hold no dot), the table name
\* its characters
FullName(p) == <<p.schemaname, ".">> \o p.tablename

\* [...new Set(policies.map(p => `${p.schemaname}.${p.tablename}`))]
RECURSIVE TablesWithPolicies(_, _)
TablesWithPolicies(policies, seen) ==
    IF policies = <<>> THEN <<>>
    ELSE LET full == FullName(Head(policies))
         IN  IF full \in seen
             THEN TablesWithPolicies(Tail(policies), seen)
             ELSE <<full>>
                  \o TablesWithPolicies(Tail(policies), seen \cup {full})

\* const [schema, table] = tableFullName.split("."), then the statement
EnableRls(tableFullName) ==
    LET parts == Split(tableFullName, ".")
    IN  Statement("rls", "ALTER TABLE",
                  Qualified(parts[1][1], parts[2]), "")

RlsSection(self) ==
    IF ~(JsLength(self.results.schema.policies) > 0) THEN <<>>
    ELSE << Heading("rls", <<"-", "-", " ", "R", "O", "W", " ", "L", "E", "V", "E", "L", " ", "S", "E", "C", "U", "R", "I", "T", "Y">>) >>
         \o Each(TablesWithPolicies(self.results.schema.policies, {}),
                 LAMBDA tableFullName : << EnableRls(tableFullName) >>)
         \o Each(self.results.schema.policies,
                 LAMBDA policy :
                    << CommentLine("rls", "Policy", policy.tablename),
                       Statement("rls", "CREATE POLICY",
                                 Qualified(policy.schemaname, policy.tablename),
                                 policy.policyname) >>)

SequencesSection(self) ==
    IF ~(JsLength(self.results.schema.sequences) > 0) THEN <<>>
    ELSE << Heading("sequences", <<"-", "-", " ", "S", "E", "Q", "U", "E", "N", "C", "E", "S">>) >>
         \o Each(self.results.schema.sequences,
                 LAMBDA seq :
                    << CommentLine("sequences", "Sequence", <<>>),
                       Statement("sequences", "CREATE SEQUENCE", NoRef,
                                 seq.sequence_name) >>)

Finalization(self) ==
    << Heading("finalization", <<"-", "-", " ", "F", "I", "N", "A", "L", "I", "Z", "A", "T", "I", "O", "N">>),
       Statement("finalization", "SET", NoRef,
                 "session_replication_role = DEFAULT") >>
    \o (IF IsArray(self.results.schema.tables)
        THEN Each(self.results.schema.tables,
                  LAMBDA table :
                     << Statement("finalization", "ANALYZE",
                                  Qualified(table.table_schema,
                                            table.table_name), "") >>)
        ELSE <<>>)
    \o << Statement("finalization", "COMMIT", NoRef, ""),
          Item("finalization", "banner", NoRef, "RESTORE COMPLETED",
               <<>>, <<>>) >>

\* variant of generateCompleteRestoreSQL: the data section is emitted
\* before the table definitions
generateCompleteRestoreSQL_DataFirst(r, cfg, self) ==
    Preamble \o Extensions
    \o SchemasSection(self) \o EnumsSection(self)
    \o DataSection(r, self)
    \o TablesSection(cfg, self) \o ViewsSection(self)
    \o FunctionsSection(self) \o TriggersSection(self)
    \o IndexesSection(self) \o RlsSection(self)
    \o SequencesSection(self)
    \o Finalization(self)

generateCompleteRestoreSQL(r, cfg, self) ==
    Preamble \o Extensions
    \o SchemasSection(self) \o EnumsSection(self)
    \o TablesSection(cfg, self) \o ViewsSection(self)
    \o FunctionsSection(self) \o TriggersSection(self)
    \o IndexesSection(self) \o RlsSection(self)
    \o DataSection(r, self)
    \o SequencesSection(self)
    \o Finalization(self)

\* the characters of an item that the schema-only filter scans
ItemText(item) == item.text \o Flatten(Flatten(item.tuples))

\* the 1-based index of the first occurrence of sub in s, 0 when none
IndexOf(s, sub) ==
    IF Includes(s, sub)
    THEN CHOOSE i \in 1..Len(s) :
            /\ i + Len(sub) - 1 <= Len(s)
            /\ SubSeq(s, i, i + Len(sub) - 1) = sub
            /\ \A k \in 1..(i - 1) : SubSeq(s, k, k + Len(sub) - 1) # sub
    ELSE 0

\* the index of the first item from position  from  whose text holds marker
FirstWith(items, marker, from) ==
    IF \E k \in from..Len(items) : Includes(ItemText(items[k]), marker)
    THEN CHOOSE k \in from..Len(items) :
            /\ Includes(ItemText(items[k]), marker)
            /\ \A m \in from..(k - 1) : ~Includes(ItemText(items[m]), marker)
    ELSE 0

\* what is left of an item that a match of the filter cuts
Fragment(item, text) ==
    IF text = ItemText(item) THEN <<item>>
    ELSE IF text = <<>> THEN <<>>
    ELSE << Item(item.section, "fragment", NoRef, "", text, <<>>) >>

\* fullSQL.replace(/-- DATA[\s\S]*?-- FINALIZATION/g, "-- FINALIZATION"),
\* item by item (a match that ends in the item it starts in is left alone)
RECURSIVE ReplaceDataSpans(_)
ReplaceDataSpans(items) ==
    LET i == FirstWith(items, <<"-", "-", " ", "D", "A", "T", "A">>, 1)
        j == IF i = 0 THEN 0
             ELSE FirstWith(items, <<"-", "-", " ", "F", "I", "N", "A", "L", "I", "Z", "A", "T", "I", "O", "N">>, i + 1)
    IN  IF i = 0 \/ j = 0 THEN items
        ELSE SubSeq(items, 1, i - 1)
             \o Fragment(items[i],
                    SubSeq(ItemText(items[i]), 1,
                           IndexOf(ItemText(items[i]), <<"-", "-", " ", "D", "A", "T", "A">>) - 1))
             \o Fragment(items[j],
                    SubSeq(ItemText(items[j]),
                           IndexOf(ItemText(items[j]), <<"-", "-", " ", "F", "I", "N", "A", "L", "I", "Z", "A", "T", "I", "O", "N">>),
                           Len(ItemText(items[j]))))
             \o ReplaceDataSpans(SubSeq(items, j + 1, Len(items)))

generateSchemaOnlySQL(r, cfg, self) ==
    ReplaceDataSpans(generateCompleteRestoreSQL(r, cfg, self))

generateDataOnlySQL(r, self) ==
    << Item("preamble", "banner", NoRef, "DATA-ONLY RESTORE SCRIPT",
            <<>>, <<>>),
       Statement("preamble", "SET", NoRef, "session_replication_role = replica"),
       Statement("preamble", "BEGIN", NoRef, "") >>
    \o DataSection(r, self)
    \o << Statement("finalization", "SET", NoRef,
                    "session_replication_role = DEFAULT"),
          Statement("finalization", "COMMIT", NoRef, "") >>

\* one CSV file: the header line and one line of fields per row
CsvFile(r, tableName, data) ==
    [columns |-> RowKeys,
     lines |-> [k \in 1..Len(data) |->
                   [c \in 1..Len(RowKeys) |->
                       CsvField(Row(r, tableName, data[k])[RowKeys[c]])]]]

\* Math.round(ms / 1000)
Seconds(ms) == (ms + 500) \div 1000

\* the lines "Duration: ..s" and "Backup Duration: .. seconds" of the README
generateComprehensiveReadme(self) ==
    [duration |-> Seconds(self.results.statistics.backupDuration)]

\* the files of saveBackupFiles, by name
WrittenFiles(r, cfg, self) ==
    (IF Contains(cfg.exportFormats, "json")
     THEN "complete-backup.json" :> self.results ELSE <<>>)
    @@ (IF Contains(cfg.exportFormats, "sql")
        THEN ("complete-restore.sql" :> generateCompleteRestoreSQL(r, cfg, self))
             @@ ("schema-only.sql" :> generateSchemaOnlySQL(r, cfg, self))
             @@ ("data-only.sql" :> generateDataOnlySQL(r, self))
        ELSE <<>>)
    @@ (IF Contains(cfg.exportFormats, "csv")
        THEN "csv-data" :>
               [n \in { k \in DOMAIN self.results.data :
                           HasRows(self.results.data[k]) } |->
                   CsvFile(r, n, self.results.data[n].data)]
        ELSE <<>>)
    @@ ("backup-summary.json" :>
           [backup |-> [duration |-> self.results.statistics.backupDuration],
            statistics |-> self.results.statistics,
            errors |-> self.results.errors,
            warnings |-> self.results.warnings,
            config |-> cfg])
    @@ (IF cfg.generateReadme
        THEN "README.md" :> generateComprehensiveReadme(self) ELSE <<>>)
(***************************************************************************)
(* The command line                                                        *)
(***************************************************************************)

\* the switch of the command-line interface: the options one argument sets
ApplyArgument(options, arg) ==
    CASE arg = <<"-", "-", "s", "c", "h", "e", "m", "a", "-", "o", "n", "l", "y">> -> [options EXCEPT !.includeData = FALSE]
      [] arg = <<"-", "-", "d", "a", "t", "a", "-", "o", "n", "l", "y">> ->
           [options EXCEPT !.includeTables = FALSE,
                           !.includeFunctions = FALSE,
                           !.includePolicies = FALSE,
                           !.includeViews = FALSE,
                           !.includeTriggers = FALSE]
      [] arg = <<"-", "-", "n", "o", "-", "c", "s", "v">> -> [options EXCEPT !.exportFormats = <<"sql", "json">>]
      [] arg = <<"-", "-", "s", "q", "l", "-", "o", "n", "l", "y">> -> [options EXCEPT !.exportFormats = <<"sql">>]
      [] arg = <<"-", "-", "f", "a", "s", "t">> -> [options EXCEPT !.maxRowsPerTable = 1000]
      [] arg = <<"-", "-", "n", "o", "-", "f", "u", "n", "c", "t", "i", "o", "n", "s">> -> [options EXCEPT !.includeFunctions = FALSE]
      [] arg = <<"-", "-", "n", "o", "-", "p", "o", "l", "i", "c", "i", "e", "s">> -> [options EXCEPT !.includePolicies = FALSE]
      [] arg = <<"-", "-", "n", "o", "-", "v", "i", "e", "w", "s">> -> [options EXCEPT !.includeViews = FALSE]
      [] arg = <<"-", "-", "n", "o", "-", "t", "r", "i", "g", "g", "e", "r", "s">> -> [options EXCEPT !.includeTriggers = FALSE]
      [] arg = <<"-", "-", "n", "o", "-", "e", "n", "u", "m", "s">> -> [options EXCEPT !.includeEnums = FALSE]
      [] OTHER -> options

\* the default branch of the switch: process.env.MANUAL_TABLES = tableList
SetManualTables(processEnv, arg) ==
    IF StartsWith(arg, <<"-", "-", "m", "a", "n", "u", "a", "l", "-", "t", "a", "b", "l", "e", "s", "=">>)
    THEN [processEnv EXCEPT !.MANUAL_TABLES = Split(arg, "=")[2]]
    ELSE processEnv

\* args.forEach(...) and  { ...BACKUP_CONFIG, ...options }
RECURSIVE CommandLine(_, _)
CommandLine(options, args) ==
    IF args = <<>> THEN options
    ELSE CommandLine(ApplyArgument(options, Head(args)), Tail(args))

\* args.forEach(...): what the loop leaves in process.env
RECURSIVE Environment(_, _)
Environment(processEnv, args) ==
    IF args = <<>> THEN processEnv
    ELSE Environment(SetManualTables(processEnv, Head(args)), Tail(args))

\* const MANUAL_TABLES = process.env.MANUAL_TABLES ? ... : [], evaluated
\* when the module is loaded; an unset variable is the empty string here
ManualTablesOf(processEnv) ==
    IF processEnv.MANUAL_TABLES # <<>>
    THEN LET parts == Split(processEnv.MANUAL_TABLES, ",")
         IN  [i \in 1..Len(parts) |-> Trim(parts[i])]
    ELSE <<>>

(***************************************************************************)
(* The run: one action per phase of run()                                  *)
(***************************************************************************)

\* this.results as the constructor leaves it
NewResults ==
    [ schema |-> [ schemas |-> <<>>, tables |-> <<>>, views |-> <<>>,
                   functions |-> <<>>, triggers |-> <<>>, policies |-> <<>>,
                   indexes |-> <<>>, sequences |-> <<>>, enums |-> <<>>,
                   tableStructures |-> <<>> ],
      data |-> <<>>,
      statistics |-> [ totalSchemas |-> 0, totalTables |-> 0, totalViews |-> 0,
                       totalFunctions |-> 0, totalTriggers |-> 0,
                       totalPolicies |-> 0, totalIndexes |-> 0,
                       totalSequences |-> 0, totalEnums |-> 0,
                       totalRows |-> 0, backupDuration |-> 0 ],
      errors |-> <<>>,
      warnings |-> <<>> ]

Self == [results |-> results, requests |-> requests]

\* a request of the phase that ends in  self  never gets a response: no
\* call passes a timeout or an abort signal, so the await never resumes
Pending(self) ==
    \E i \in (Len(requests) + 1)..Len(self.requests) :
        self.requests[i].kind = remote.hang

\* a phase of run() that returned: store the object state, go to the next
Returned(self, next) ==
    /\ ~Pending(self)
    /\ results' = self.results
    /\ requests' = self.requests
    /\ pc' = next
    /\ UNCHANGED <<argv, env, config, MANUAL_TABLES, remote, files>>

\* the catch block of run(): record the fatal error and rethrow
Fatal(self) ==
    /\ ~Pending(self)
    /\ results' = PushError(self, LogLine("Fatal error", <<>>, "TypeError")).results
    /\ requests' = self.requests
    /\ pc' = "failed"
    /\ UNCHANGED <<argv, env, config, MANUAL_TABLES, remote, files>>

\* the block under  require.main === module : the arguments are parsed,
\* the object is constructed from the options and run() is called.  The
\* constant MANUAL_TABLES was evaluated when the module was loaded and is
\* not evaluated again.
Main ==
    /\ pc = "main"
    /\ env' = Environment(env, argv)
    /\ config' = CommandLine(config, argv)
    /\ results' = NewResults
    /\ requests' = <<>>
    /\ pc' = "initialize"
    /\ UNCHANGED <<argv, MANUAL_TABLES, remote, files>>

\* initialize(): testConnection pushes a warning when nothing answered
Initialize ==
    /\ pc = "initialize"
    /\ LET v == VersionRpc(remote)
           self1 == Log(Self, "rpc", version, 0, 0)
           verified1 == ~v.thrown /\ v.error = NoError
           self2 == IF verified1 THEN self1
                    ELSE Log(self1, "openapi", <<>>, 0, 0)
           verified2 == verified1 \/ remote.openapi # "fail"
       IN  Returned(IF verified2 THEN self2
                    ELSE PushWarning(self2,
                             LogLine("Connection verification failed", <<>>, "")),
                    "discoverSchemas")

DiscoverSchemas ==
    /\ pc = "discoverSchemas"
    /\ Returned(discoverSchemas(remote, config, MANUAL_TABLES, Self),
                "discoverTables")

DiscoverTables ==
    /\ pc = "discoverTables"
    /\ Returned(discoverTables(remote, config, MANUAL_TABLES, Self),
                "analyzeTableStructures")

AnalyzeTableStructures ==
    /\ pc = "analyzeTableStructures"
    /\ LET Step(a) ==
               IF a.thrown THEN Fatal(a.self)
               ELSE Returned(a.self, "backupFunctions")
       IN  Step(analyzeTableStructures(remote, config, MANUAL_TABLES, Self))

BackupFunctions ==
    /\ pc = "backupFunctions"
    /\ Returned(backupFunctions(remote, config, MANUAL_TABLES, Self),
                "backupViews")

BackupViews ==
    /\ pc = "backupViews"
    /\ Returned(backupViews(remote, config, MANUAL_TABLES, Self),
                "backupTriggers")

BackupTriggers ==
    /\ pc = "backupTriggers"
    /\ Returned(backupTriggers(remote, config, MANUAL_TABLES, Self),
                "backupPolicies")

BackupPolicies ==
    /\ pc = "backupPolicies"
    /\ LET Step(p) ==
               IF p.thrown THEN Fatal(p.self)
               ELSE Returned(p.self, "backupIndexes")
       IN  Step(backupPolicies(remote, config, MANUAL_TABLES, Self))

BackupIndexes ==
    /\ pc = "backupIndexes"
    /\ Returned(backupIndexes(remote, config, MANUAL_TABLES, Self),
                "backupEnums")

BackupEnums ==
    /\ pc = "backupEnums"
    /\ Returned(backupEnums(remote, config, MANUAL_TABLES, Self),
                "backupSequences")

BackupSequences ==
    /\ pc = "backupSequences"
    /\ Returned(backupSequences(remote, config, MANUAL_TABLES, Self),
                "backupAllData")

BackupAllData ==
    /\ pc = "backupAllData"
    /\ Returned(backupAllData(remote, config, Self), "saveBackupFiles")

\* Date.now() - this.startTime at the end of a run: the run has taken some
\* milliseconds, less or more than half a second
Elapsed == { 400, 2600 }

\* saveBackupFiles(), then run() sets statistics.backupDuration, prints the
\* summary and returns
SaveBackupFiles ==
    /\ pc = "saveBackupFiles"
    /\ files' = WrittenFiles(remote, config, Self)
    /\ \E elapsed \in Elapsed :
          results' = [results EXCEPT !.statistics.backupDuration = elapsed]
    /\ pc' = "done"
    /\ UNCHANGED <<argv, env, config, MANUAL_TABLES, remote, requests>>

Next ==
    \/ Main
    \/ Initialize
    \/ DiscoverSchemas
    \/ DiscoverTables
    \/ AnalyzeTableStructures
    \/ BackupFunctions
    \/ BackupViews
    \/ BackupTriggers
    \/ BackupPolicies
    \/ BackupIndexes
    \/ BackupEnums
    \/ BackupSequences
    \/ BackupAllData
    \/ SaveBackupFiles

(***************************************************************************)
(* Bounds and the environments the runs are checked in                     *)
(***************************************************************************)

\* at most this many categories whose privileged query does not answer rows
MaxCatalogFaults == 1

\* at most this many public tables in a database with faulty reads
MaxTables == 2

\* at most this many tables whose count or read requests misbehave
MaxTableFaults == 1

AllUnavailable == [c \in Categories |-> "unavailable"]

CatalogEnvs ==
    UNION { { [c \in Categories |-> IF c \in F THEN g[c] ELSE "rows"] :
                 g \in [F -> CatalogOutcomes \ {"rows"}] } :
            F \in { G \in SUBSET Categories :
                       Cardinality(G) <= MaxCatalogFaults } }
    \cup { AllUnavailable }

Nominal(n) == [rows |-> n, count |-> "exact", read |-> "ok"]

\* databases of the discovery runs: small tables, reads that answer
\*  - users (3 rows) and orders (0 rows), both common names
\*  - orders and invoices
\*  - invoices and sessions only: no common name, found by the catalog,
\*    the resource listing or the manual list
\*  - orders, and an invoices table that cannot be read
\*  - no public table, one table in schema app
\*  - no table at all
PlainDbs ==
    { [db |-> (users :> Nominal(3)) @@ (orders :> Nominal(0)),
       appTables |-> {}],
      [db |-> (orders :> Nominal(2)) @@ (invoices :> Nominal(3)),
       appTables |-> {}],
      [db |-> (invoices :> Nominal(2)) @@ (sessions :> Nominal(2)),
       appTables |-> {}],
      [db |-> (invoices :> [rows |-> 2, count |-> "exact", read |-> "error"])
                 @@ (orders :> Nominal(1)),
       appTables |-> {}],
      [db |-> <<>>, appTables |-> {orders}],
      [db |-> <<>>, appTables |-> {}] }

RowCounts == { 0, 500, 1500, 5000 }

\* one request kind of a table misbehaves, or none
TableModes ==
    { m \in CountModes \X ReadModes : m[1] = "exact" \/ m[2] = "ok" }

NameSets ==
    { S \in SUBSET { invoices, orders, users } :
         S # {} /\ Cardinality(S) <= MaxTables }

\* databases of the extraction runs; users matches the exclusion list and is
\* never read in these runs, so it is given one size and reads that answer
RichDbs ==
    UNION { { [n \in S |-> IF n = users
                           THEN Nominal(500)
                           ELSE [rows |-> rows[n],
                                 count |-> m[n][1], read |-> m[n][2]]] :
                 rows \in [S \ {users} -> RowCounts],
                 m \in { f \in [S \ {users} -> TableModes] :
                            Cardinality({ n \in S \ {users} :
                                             f[n] # <<"exact", "ok">> })
                                <= MaxTableFaults } } :
            S \in NameSets }

\* the /rpc/ paths and resource paths of the endpoint's specification
RpcPaths ==
    << RpcPath(exec_sql), RpcPath(increment_count), <<"/", "o", "r", "d", "e", "r", "s">> >>

InitObject ==
    /\ pc = "main"
    /\ results = NewResults
    /\ requests = <<>>
    /\ files = <<>>

\* runs that exercise discovery: any catalog outcome, small tables
InitDiscovery ==
    /\ InitObject
    /\ config = BACKUP_CONFIG
    /\ argv = <<>>
    /\ env \in { [MANUAL_TABLES |-> <<>>],
                 [MANUAL_TABLES |-> <<"s", "e", "s", "s", "i", "o", "n", "s", ",", " ", "i", "n", "v", "o", "i", "c", "e", "s", ",", "g", "h", "o", "s", "t">>] }
    /\ MANUAL_TABLES = ManualTablesOf(env)
    /\ remote \in
         { [catalog |-> c, openapi |-> o, db |-> d.db,
            appTables |-> d.appTables,
            rpcPaths |-> RpcPaths, versionRpc |-> v,
            payload |-> JsString(<<"i", "t", "'", "s">>),
            comment |-> <<>>, nullRows |-> {}, hang |-> "none"] :
              c \in CatalogEnvs, o \in {"ok", "nodefs", "fail"},
              d \in PlainDbs, v \in {"ok", "missing"} }

\* runs that exercise extraction: the catalog answers, reads may misbehave;
\* the tables are large, and only the JSON export is asked for
InitExtraction ==
    /\ InitObject
    /\ config \in { [BACKUP_CONFIG EXCEPT !.maxRowsPerTable = m,
                                           !.exportFormats = <<"json">>] :
                       m \in {1000, 2000} }
    /\ argv = <<>>
    /\ env = [MANUAL_TABLES |-> <<>>]
    /\ MANUAL_TABLES = ManualTablesOf(env)
    /\ remote \in
         { [catalog |-> [c \in Categories |-> "rows"], openapi |-> "ok",
            db |-> d, appTables |-> a,
            rpcPaths |-> RpcPaths, versionRpc |-> "ok",
            payload |-> JsString(<<"i", "t", "'", "s">>),
            comment |-> <<>>, nullRows |-> {}, hang |-> "none"] :
              d \in RichDbs, a \in { {}, {orders} } }


\* the column values the modelled rows may hold, one of each kind that
\* inferDataType and the literal rendering tell apart
Values ==
    { JsNull, JsBoolean(TRUE), JsBoolean(FALSE),
      JsNumber(<<"4", "2">>, FALSE), JsNumber(<<"3", ".", "1", "4">>, TRUE),
      JsString(<<"1", "2", "3", "e", "4", "5", "6", "7", "-", "e", "8", "9", "b", "-", "4", "2", "d", "3", "-", "a", "4", "5", "6", "-", "4", "2", "6", "6", "1", "4", "1", "7", "4", "0", "0", "0">>),
      JsString(<<"2", "0", "2", "4", "-", "0", "1", "-", "1", "5", "T", "1", "0", ":", "0", "0", ":", "0", "0", "Z">>),
      JsString(<<"T", "Z">>),
      JsString(<<"2", "0", "2", "4", "-", "0", "1", "-", "1", "5">>),
      JsString(<<"1", "0", ":", "3", "0", ":", "0", "0">>),
      JsString(<<"a", "@", "b", ".", "c">>),
      JsString(<<"i", "t", "'", "s">>),
      JsString(<<"a", "\\", "b">>),
      JsString(<<>>),
      JsString([i \in 1..255 |-> "x"]),
      JsString([i \in 1..256 |-> "x"]),
      JsObject(<<"{", "\"", "a", "\"", ":", "\"", "i", "t", "'", "s", "\"", "}">>) }

\* table comments: none, plain, and two that hold a section title
Comments ==
    { <<>>, <<"a", "r", "c", "h", "i", "v", "e">>, <<"s", "e", "e", " ", "-", "-", " ", "D", "A", "T", "A", " ", "b", "e", "l", "o", "w">>, <<"u", "n", "t", "i", "l", " ", "-", "-", " ", "F", "I", "N", "A", "L", "I", "Z", "A", "T", "I", "O", "N">> }

\* the argument lists of the modelled runs
ArgLists ==
    { <<>>, << <<"-", "-", "d", "a", "t", "a", "-", "o", "n", "l", "y">> >>,
      << <<"-", "-", "s", "c", "h", "e", "m", "a", "-", "o", "n", "l", "y">> >>,
      << <<"-", "-", "s", "q", "l", "-", "o", "n", "l", "y">> >> }

\* runs that exercise file generation: the catalog answers everything or
\* nothing, the tables are small, the row values and comments vary
InitOutput ==
    /\ InitObject
    /\ config = BACKUP_CONFIG
    /\ argv \in ArgLists
    /\ env = [MANUAL_TABLES |-> <<>>]
    /\ MANUAL_TABLES = ManualTablesOf(env)
    /\ remote \in
         { [catalog |-> c.catalog, openapi |-> "ok", db |-> c.db,
            appTables |-> c.appTables,
            rpcPaths |-> RpcPaths, versionRpc |-> "ok",
            payload |-> v, comment |-> t, nullRows |-> {}, hang |-> "none"] :
              c \in { [catalog |-> [k \in Categories |-> "rows"],
                       db |-> (orders :> Nominal(3)) @@ (invoices :> Nominal(2)),
                       appTables |-> {}],
                      [catalog |-> [k \in Categories |-> "rows"],
                       db |-> (orders :> Nominal(3)) @@ (invoices :> Nominal(2)),
                       appTables |-> {orders}],
                      [catalog |-> [k \in Categories |-> "rows"],
                       db |-> (audit_log :> Nominal(1)) @@ (invoices :> Nominal(2)),
                       appTables |-> {}],
                      [catalog |-> AllUnavailable,
                       db |-> (posts :> Nominal(2)) @@ (comments :> Nominal(1)),
                       appTables |-> {}] },
              v \in Values, t \in Comments }
Init == InitDiscovery

Spec == Init /\ [][Next]_vars

SpecExtraction == InitExtraction /\ [][Next]_vars

SpecOutput == InitOutput /\ [][Next]_vars

\* the request kinds of which one may stay without a response
HangKinds == { "none", "exec_sql", "probe", "count", "select", "range" }

\* runs in which every request of one kind never gets a response
InitTimeout ==
    /\ InitObject
    /\ config = BACKUP_CONFIG
    /\ argv = <<>>
    /\ env = [MANUAL_TABLES |-> <<>>]
    /\ MANUAL_TABLES = ManualTablesOf(env)
    /\ remote \in
         { [catalog |-> c, openapi |-> o,
            db |-> (orders :> Nominal(3)) @@ (invoices :> Nominal(0)),
            appTables |-> {},
            rpcPaths |-> RpcPaths, versionRpc |-> "ok",
            payload |-> JsString(<<"i", "t", "'", "s">>),
            comment |-> <<>>, nullRows |-> {}, hang |-> h] :
              c \in { [k \in Categories |-> "rows"], AllUnavailable },
              o \in {"ok", "fail"}, h \in HangKinds }


\* the argument lists of the runs started with a manual table list
ManualArgLists ==
    { <<>>,
      << <<"-", "-", "m", "a", "n", "u", "a", "l", "-", "t", "a", "b", "l", "e", "s", "=", "s", "e", "s", "s", "i", "o", "n", "s", ",", "i", "n", "v", "o", "i", "c", "e", "s">> >>,
      << <<"-", "-", "s", "q", "l", "-", "o", "n", "l", "y">>,
         <<"-", "-", "m", "a", "n", "u", "a", "l", "-", "t", "a", "b", "l", "e", "s", "=", "i", "n", "v", "o", "i", "c", "e", "s", ",", "g", "h", "o", "s", "t">> >> }

\* runs started from the command line with or without --manual-tables, the
\* variable MANUAL_TABLES set or not in the environment of the process
InitCli ==
    /\ InitObject
    /\ config = BACKUP_CONFIG
    /\ argv \in ManualArgLists
    /\ env \in { [MANUAL_TABLES |-> <<>>],
                 [MANUAL_TABLES |-> <<"o", "r", "d", "e", "r", "s", ",", " ", "s", "e", "s", "s", "i", "o", "n", "s">>] }
    /\ MANUAL_TABLES = ManualTablesOf(env)
    /\ remote \in
         { [catalog |-> c, openapi |-> o, db |-> d,
            appTables |-> {},
            rpcPaths |-> RpcPaths, versionRpc |-> "ok",
            payload |-> JsString(<<"i", "t", "'", "s">>),
            comment |-> <<>>, nullRows |-> {}, hang |-> "none"] :
              c \in { AllUnavailable, [k \in Categories |-> "rows"],
                      [k \in Categories |->
                          IF k = "tables" THEN "empty" ELSE "rows"] },
              o \in {"ok", "fail"},
              d \in { (invoices :> Nominal(2)) @@ (sessions :> Nominal(1)),
                      (invoices :> [rows |-> 2, count |-> "exact",
                                    read |-> "error"])
                         @@ (sessions :> Nominal(1)),
                      (orders :> Nominal(2)) @@ (invoices :> Nominal(1)) } }

SpecCli == InitCli /\ [][Next]_vars

\* table sizes around the batch size of the INSERT statements
BatchRowCounts == { 0, 1, 99, 100, 101, 200, 250 }

\* runs that exercise the batching of the INSERT statements: SQL files
\* only, one or two tables of up to a few batches, the second row of a
\* table with or without a value in column payload
InitBatches ==
    /\ InitObject
    /\ config = BACKUP_CONFIG
    /\ argv = << <<"-", "-", "s", "q", "l", "-", "o", "n", "l", "y">> >>
    /\ env = [MANUAL_TABLES |-> <<>>]
    /\ MANUAL_TABLES = ManualTablesOf(env)
    /\ remote \in
         { [catalog |-> c, openapi |-> "ok",
            db |-> (orders :> Nominal(a)) @@ (invoices :> Nominal(b)),
            appTables |-> {},
            rpcPaths |-> RpcPaths, versionRpc |-> "ok",
            payload |-> v, comment |-> <<>>, nullRows |-> z,
            hang |-> "none"] :
              c \in { [k \in Categories |-> "rows"], AllUnavailable },
              a \in BatchRowCounts, b \in BatchRowCounts,
              v \in { JsNull, JsString(<<"i", "t", "'", "s">>) },
              z \in { {}, {2} } }

SpecBatches == InitBatches /\ [][Next]_vars
\* a phase whose requests were all answered runs to its end: the event
\* loop resumes every await whose promise settles
SpecTimeout == InitTimeout /\ [][Next]_vars /\ WF_vars(Next)

(***************************************************************************)
(* Properties of the data extractor                                        *)
(***************************************************************************)

\* the names of the discovered tables
DiscoveredNames ==
    IF IsArray(results.schema.tables)
    THEN { results.schema.tables[i].table_name :
              i \in 1..Len(results.schema.tables) }
    ELSE {}

\* the extraction phase has run
Extracted == pc \in {"saveBackupFiles", "done"}

\* a table name matches an entry of the exclusion list: one contains the
\* other, the entry taken without its schema prefix on the left-hand side
MatchesExclusion(name) ==
    \E i \in 1..Len(excludeDataTables) :
        \/ Includes(name, SplitPop(excludeDataTables[i]))
        \/ Includes(excludeDataTables[i], name)

\* which tier the discovered tables came from, read off the request log
TablesFromTier ==
    IF \E i \in 1..Len(requests) : requests[i].kind = "manual" THEN "manual"
    ELSE IF \E i \in 1..Len(requests) : requests[i].kind = "probe" THEN "probe"
    ELSE IF remote.catalog["tables"] \in {"rows", "direct"} THEN "privileged"
    ELSE "openapi"

\* C1: a discovered table whose name matches an entry of excludeDataTables
\* never has rows in results.data: its entry, once written, is the skipped
\* marker, whichever tier discovered the table.
C1_ExcludedTablesHoldNoRows ==
    \A n \in DOMAIN results.data :
        MatchesExclusion(n) =>
            /\ "data" \notin DOMAIN results.data[n]
            /\ results.data[n] = [skipped |-> TRUE, reason |-> "excluded table"]

\* C1 witness: an excluded table that has rows and was found by the manual
\* list has been processed and carries the skipped marker
C1_Witness ==
    /\ Extracted
    /\ TablesFromTier = "manual"
    /\ sessions \in DiscoveredNames
    /\ sessions \in DOMAIN remote.db
    /\ remote.db[sessions].rows > 0
    /\ sessions \in DOMAIN results.data
    /\ results.data[sessions].skipped

\* the rows 1..n of a table, in order
FirstRows(n) == [i \in 1..n |-> i]

\* C2: a non-excluded table whose exact count is c > 0 and whose range reads
\* answer in full is stored with exactly min(c, maxRowsPerTable) rows (the
\* first ones, in order), totalRows = c and wasLimited = (c > maxRowsPerTable).
C2_CapAndTruncationFlag ==
    Extracted =>
        \A n \in DiscoveredNames \cap DOMAIN remote.db :
            ( /\ ~MatchesExclusion(n)
              /\ remote.db[n].count = "exact"
              /\ remote.db[n].read = "ok"
              /\ remote.db[n].rows > 0 )
            => /\ n \in DOMAIN results.data
               /\ DOMAIN results.data[n] =
                     {"data", "rowCount", "totalRows", "wasLimited"}
               /\ results.data[n].data =
                     FirstRows(Min(remote.db[n].rows, config.maxRowsPerTable))
               /\ results.data[n].rowCount =
                     Min(remote.db[n].rows, config.maxRowsPerTable)
               /\ results.data[n].totalRows = remote.db[n].rows
               /\ results.data[n].wasLimited =
                     (remote.db[n].rows > config.maxRowsPerTable)

\* C2 witness: count 5000 under a cap of 1000 stored as 1000 rows, limited
C2_Witness ==
    /\ Extracted
    /\ config.maxRowsPerTable = 1000
    /\ orders \in DOMAIN remote.db
    /\ remote.db[orders] = Nominal(5000)
    /\ orders \in DOMAIN results.data
    /\ Len(results.data[orders].data) = 1000
    /\ results.data[orders].wasLimited

\* the number of rows a results.data entry holds
RowsHeld(entry) == IF "data" \in DOMAIN entry THEN Len(entry.data) ELSE 0

\* a results.data entry shows that rows are missing
MarkedIncomplete(entry) ==
    \/ "error" \in DOMAIN entry
    \/ "wasLimited" \in DOMAIN entry /\ entry.wasLimited
    \/ "totalRows" \in DOMAIN entry
         /\ ToNumber(entry.totalRows) > entry.rowCount

\* C3: whatever the count request answers, a non-excluded table stored with
\* fewer rows than it holds has wasLimited set, totalRows > rowCount, or an
\* error field.
C3_MissingRowsAreMarked ==
    Extracted =>
        \A n \in DiscoveredNames \cap DOMAIN remote.db :
            ( /\ ~MatchesExclusion(n)
              /\ n \in DOMAIN results.data
              /\ RowsHeld(results.data[n]) < remote.db[n].rows )
            => MarkedIncomplete(results.data[n])

\* every request for table T fails, with an error result or by throwing
ForceFail(r, T, how) ==
    [r EXCEPT !.db = [n \in DOMAIN @ |->
                         IF n = T
                         THEN [rows |-> @[n].rows, count |-> how, read |-> how]
                         ELSE @[n]]]

\* the object as backupAllData found it
BeforeExtraction ==
    [results |-> [results EXCEPT !.data = <<>>, !.statistics.totalRows = 0],
     requests |-> <<>>]

DistinctNames ==
    /\ IsArray(results.schema.tables)
    /\ Cardinality(DiscoveredNames) = Len(results.schema.tables)

\* C4: with distinct table names, the run in which every request for one
\* table T fails gives every other table the entry it has in this run, and
\* every other table has an entry in both runs.
C4_FailureOfOneTableIsIsolated ==
    (Extracted /\ DistinctNames) =>
        \A T \in DiscoveredNames : \A how \in {"error", "throw"} :
            LET failing == backupAllData(ForceFail(remote, T, how), config,
                                         BeforeExtraction).results.data
            IN  \A n \in DiscoveredNames \ {T} :
                    /\ n \in DOMAIN results.data
                    /\ n \in DOMAIN failing
                    /\ failing[n] = results.data[n]

\* C4 witness: a run in which one table's extraction threw and another
\* table, processed after it, holds its rows
C4_Witness ==
    /\ Extracted
    /\ DistinctNames
    /\ Len(results.schema.tables) >= 2
    /\ \E i, j \in 1..Len(results.schema.tables) :
          /\ i < j
          /\ results.schema.tables[i].table_name \in DOMAIN remote.db
          /\ remote.db[results.schema.tables[i].table_name].read = "throw"
          /\ "error" \in DOMAIN results.data[results.schema.tables[i].table_name]
          /\ RowsHeld(results.data[results.schema.tables[j].table_name]) > 0

RECURSIVE SumRows(_, _)
SumRows(data, S) ==
    IF S = {} THEN 0
    ELSE LET n == CHOOSE x \in S : TRUE
         IN  RowsHeld(data[n]) + SumRows(data, S \ {n})

\* C5: after backupAllData, statistics.totalRows is the number of rows held
\* in results.data, summed over all its tables.
C5_TotalRowsIsRowsHeld ==
    Extracted =>
        results.statistics.totalRows = SumRows(results.data, DOMAIN results.data)

(***************************************************************************)
(* Properties of the run and of discovery                                  *)
(***************************************************************************)

\* the phases of run() in the order run() calls them
PhaseOrder ==
    << "initialize", "discoverSchemas", "discoverTables",
       "analyzeTableStructures", "backupFunctions", "backupViews",
       "backupTriggers", "backupPolicies", "backupIndexes", "backupEnums",
       "backupSequences", "backupAllData", "saveBackupFiles", "done" >>

\* the position of pc in PhaseOrder, 0 for a failed run
Position ==
    IF pc = "failed" \/ pc = "main" THEN 0
    ELSE CHOOSE i \in 1..Len(PhaseOrder) : PhaseOrder[i] = pc

\* the phase named p has run and returned
After(p) == \E i \in 1..Len(PhaseOrder) : PhaseOrder[i] = p /\ Position > i

\* C6: whatever categories fail or answer with malformed results, every
\* phase of run() is followed by the next phase of the fixed order, up to
\* saveBackupFiles: no discovery failure ends the run.
C6_EveryPhaseIsFollowedByTheNext ==
    [][\A i \in 1..(Len(PhaseOrder) - 1) :
          pc = PhaseOrder[i] => pc' = PhaseOrder[i + 1]]_vars

\* C7: once discoverSchemas has returned, results.schema.schemas contains
\* a record whose schema_name is public, whatever the namespace query
\* answered.
C7_PublicSchemaPresent ==
    After("discoverSchemas") =>
        \E i \in 1..Len(results.schema.schemas) :
            results.schema.schemas[i].schema_name = public

\* C7 witness: the namespace query could not be executed at all and
\* discoverSchemas returned the public schema
C7_Witness ==
    /\ pc = "discoverTables"
    /\ remote.catalog["schemas"] = "unavailable"
    /\ results.schema.schemas = <<PublicSchema>>

\* what each tier of table discovery yields in the current environment
PrivilegedTables ==
    IF remote.catalog["tables"] \in {"rows", "direct"}
    THEN CatalogRows(remote, "tables")
    ELSE <<>>

ListedTables ==
    IF remote.openapi = "ok"
    THEN OpenApiTables(config, Definitions(remote))
    ELSE <<>>

ProbedTables == ProbeCommon(remote, Self, 1, <<>>).tables

ManualTables == ProbeManual(remote, MANUAL_TABLES, Self, 1, <<>>).tables

\* the request kinds that belong to each tier, in tier order
TierKinds ==
    << {"exec_sql", "exec_sql_direct"}, {"openapi"}, {"probe", "root"},
       {"manual"} >>

\* the first position of a request of tier t in a request sequence, 0 if none
FirstOf(seq, t) ==
    IF \E i \in 1..Len(seq) : seq[i].kind \in TierKinds[t]
    THEN CHOOSE i \in 1..Len(seq) :
            /\ seq[i].kind \in TierKinds[t]
            /\ \A j \in 1..(i - 1) : seq[j].kind \notin TierKinds[t]
    ELSE 0

\* the tiers in seq start in tier order, and no tier after  last  is used
TiersUpTo(seq, last) ==
    /\ \A t \in 1..4 : t > last => FirstOf(seq, t) = 0
    /\ \A t, u \in 1..last :
          (t < u /\ FirstOf(seq, t) # 0 /\ FirstOf(seq, u) # 0)
              => FirstOf(seq, t) < FirstOf(seq, u)

\* C8: discoverTables tries privileged query, OpenAPI listing, name probe,
\* manual list in this order; results.schema.tables is exactly the output
\* of the first tier that yields a non-empty list, and no request of a
\* later tier is made.
C8_FirstTierWins ==
    [][pc = "discoverTables" =>
         LET new == SubSeq(requests', Len(requests) + 1, Len(requests'))
             tables == results'.schema.tables
         IN  CASE PrivilegedTables # <<>> ->
                    tables = PrivilegedTables /\ TiersUpTo(new, 1)
               [] ListedTables # <<>> ->
                    tables = ListedTables /\ TiersUpTo(new, 2)
               [] ProbedTables # <<>> ->
                    tables = ProbedTables /\ TiersUpTo(new, 3)
               [] ManualTables # <<>> ->
                    tables = ManualTables /\ TiersUpTo(new, 4)
               [] OTHER -> TRUE]_vars

\* C8 witness: the privileged query came back empty, the OpenAPI listing
\* yielded the tables, and no name was probed
C8_Witness ==
    /\ pc = "analyzeTableStructures"
    /\ remote.catalog["tables"] = "empty"
    /\ ListedTables # <<>>
    /\ results.schema.tables = ListedTables
    /\ \A i \in 1..Len(requests) : requests[i].kind \notin {"probe", "manual"}

\* the functions backupFunctionsFallback is to record: the /rpc/ paths of
\* the specification other than exec_sql, and version when it answers
FallbackFunctionNames ==
    (IF remote.openapi = "fail" THEN {}
     ELSE { SubSeq(remote.rpcPaths[i], 6, Len(remote.rpcPaths[i])) :
               i \in { j \in 1..Len(remote.rpcPaths) :
                          /\ StartsWith(remote.rpcPaths[j], RpcPath(<<>>))
                          /\ remote.rpcPaths[j] # RpcPath(exec_sql) } })
    \cup (IF remote.versionRpc \in {"ok", "error"} THEN {version} ELSE {})

\* C9: with includeFunctions enabled, when no exec_sql path can execute the
\* routine query, backupFunctions leaves in results.schema.functions a
\* record for every /rpc/ path of the OpenAPI specification (other than
\* exec_sql) and for every probed well-known function that answers.
C9_FunctionFallbackRuns ==
    ( /\ After("backupFunctions")
      /\ config.includeFunctions
      /\ remote.catalog["functions"] = "unavailable" )
    => /\ IsArray(results.schema.functions)
       /\ \A f \in FallbackFunctionNames :
             \E i \in 1..Len(results.schema.functions) :
                 results.schema.functions[i].routine_name = f

\* the policies backupPoliciesFallback is to infer: one per discovered table
\* that a 1-row read can access
InferredPolicies ==
    LET readable ==
            { i \in 1..Len(results.schema.tables) :
                 LET p == SelectLimit(remote,
                              results.schema.tables[i].table_name, 1)
                 IN  ~p.thrown /\ p.error = NoError }
    IN  { [schemaname |-> results.schema.tables[i].table_schema,
           tablename |-> results.schema.tables[i].table_name,
           policyname |-> "public_read_access", cmd |-> "SELECT",
           qual |-> "true", permissive |-> "PERMISSIVE"] : i \in readable }

\* C10: with includePolicies enabled, when no exec_sql path can execute the
\* pg_policies query, results.schema.policies ends as one inferred
\* PERMISSIVE SELECT policy per discovered table that a 1-row read can
\* access, and no policy for the other tables.
C10_PolicyFallbackRuns ==
    ( /\ After("backupPolicies")
      /\ config.includePolicies
      /\ remote.catalog["policies"] = "unavailable"
      /\ IsArray(results.schema.tables) )
    => /\ IsArray(results.schema.policies)
       /\ { results.schema.policies[i] :
               i \in 1..Len(results.schema.policies) } = InferredPolicies

(***************************************************************************)
(* C11 - C20: the generated files, literals, type inference, ordering      *)
(***************************************************************************)

\* the items of a script outside the given section
WithoutSection(script, section) ==
    SelectSeq(script, LAMBDA item : item.section # section)

\* the run finished and wrote the SQL scripts
ScriptsWritten == pc = "done" /\ "complete-restore.sql" \in DOMAIN files

\* C11: the schema-only script is the complete restore script with the data
\* section removed and every other section (schemas, enums, tables, views,
\* functions, triggers, indexes, RLS, sequences, finalization) present and
\* unchanged, whatever the comments and row values contain.
C11_SchemaOnlyIsCompleteWithoutData ==
    ScriptsWritten =>
        files["schema-only.sql"]
            = WithoutSection(files["complete-restore.sql"], "data")

SectionOrder ==
    << "preamble", "extensions", "schemas", "enums", "tables", "views",
       "functions", "triggers", "indexes", "rls", "data", "sequences",
       "finalization" >>

\* the position of a section in the stated order
Rank(section) == CHOOSE k \in 1..Len(SectionOrder) : SectionOrder[k] = section

SectionsOf(script) == { script[k].section : k \in 1..Len(script) }

\* C12: in the complete restore script no item of a section comes before an
\* item of a section that precedes it in the order preamble, extensions,
\* schemas, enums, tables, views, functions, triggers, indexes, RLS, data,
\* sequences, finalization.
C12_SectionsInOrder ==
    ScriptsWritten =>
        LET script == files["complete-restore.sql"]
        IN  \A k \in 1..(Len(script) - 1) :
               Rank(script[k].section) <= Rank(script[k + 1].section)

\* a written script that holds every one of the thirteen sections
C12_Witness ==
    /\ ScriptsWritten
    /\ SectionsOf(files["complete-restore.sql"])
          = { SectionOrder[k] : k \in 1..Len(SectionOrder) }

\* the INSERT statements of a script for one table
InsertsFor(script, tableName) ==
    SelectSeq(script,
              LAMBDA item :
                 item.kind = "INSERT INTO" /\ item.ref.table = tableName)

\* C13: a run with the default configuration against a catalog exposing the
\* public tables users (3 rows) and orders (0 rows) ends with
\* statistics.totalRows = 3, exactly one INSERT statement for users carrying
\* exactly 3 value tuples, and no INSERT statement for orders.
C13_ThreeUsersRowsRestored ==
    ( /\ ScriptsWritten
      /\ config = BACKUP_CONFIG
      /\ remote.catalog = [c \in Categories |-> "rows"]
      /\ remote.appTables = {}
      /\ remote.db = (users :> Nominal(3)) @@ (orders :> Nominal(0)) )
    => LET script == files["complete-restore.sql"]
       IN  /\ results.statistics.totalRows = 3
           /\ Len(InsertsFor(script, users)) = 1
           /\ Len(InsertsFor(script, users)[1].tuples) = 3
           /\ Len(InsertsFor(script, orders)) = 0

\* C14: when no exec_sql path exists and the resource listing returns
\* exactly posts and comments, discoverTables yields exactly those two
\* tables, each with schema public, and adds a warning for the unavailable
\* privileged path to results.warnings during that table discovery.
C14_ListingFallbackWarns ==
    [][( /\ pc = "discoverTables"
         /\ remote.catalog = AllUnavailable
         /\ { ListedTables[i].table_name : i \in 1..Len(ListedTables) }
               = {posts, comments} )
       => LET tables == results'.schema.tables
          IN  /\ Len(tables) = 2
              /\ { tables[i].table_name : i \in 1..Len(tables) }
                    = {posts, comments}
              /\ \A i \in 1..Len(tables) : tables[i].table_schema = "public"
              /\ Len(results'.warnings) > Len(results.warnings)]_vars

\* C15: if a remote call (catalog query, probe, count or range read) never
\* returns a response, it is eventually treated as a failure of that call
\* only, and run() eventually reaches the file generation and completes.
C15_RunCompletesDespiteSilentCall == <>(pc = "done")

\* the statement kinds that name a table
TableStatementKinds ==
    { "DROP TABLE", "CREATE TABLE", "COMMENT ON COLUMN", "COMMENT ON TABLE",
      "CREATE TRIGGER", "ALTER TABLE", "CREATE POLICY", "INSERT INTO",
      "ANALYZE" }

\* C16: every table reference in every statement of the complete restore
\* script (DROP TABLE, CREATE TABLE, COMMENT ON, trigger ON clause, ALTER
\* TABLE, CREATE POLICY, INSERT INTO, ANALYZE) is a double-quoted schema
\* name, a dot, and a double-quoted table name.
C16_TableReferencesAreQualified ==
    ScriptsWritten =>
        LET script == files["complete-restore.sql"]
        IN  \A k \in 1..Len(script) :
               script[k].kind \in TableStatementKinds
                   => /\ script[k].ref.qualified
                      /\ script[k].ref.schema # ""
                      /\ script[k].ref.table # <<>>

\* the number of consecutive quote characters that end at position i
QuoteRun(s, i) ==
    Cardinality({ j \in 1..i : \A m \in j..i : s[m] = "'" })

\* the string a standard SQL string constant denotes: a doubled quote is
\* one quote, and a backslash is an ordinary character
Unquote(body) ==
    Flatten([i \in 1..Len(body) |->
                IF body[i] = "'" /\ QuoteRun(body, i) % 2 = 0
                THEN <<>> ELSE <<body[i]>>])

\* the value that a standard SQL literal denotes
ParseSqlLiteral(lit) ==
    CASE lit = <<"N", "U", "L", "L">> -> JsNull
      [] lit = <<"t", "r", "u", "e">> -> JsBoolean(TRUE)
      [] lit = <<"f", "a", "l", "s", "e">> -> JsBoolean(FALSE)
      [] Len(lit) >= 9 /\ lit[1] = "'"
         /\ EndsWith(lit, <<"'", ":", ":", "j", "s", "o", "n", "b">>) ->
           JsObject(Unquote(SubSeq(lit, 2, Len(lit) - 8)))
      [] Len(lit) >= 2 /\ lit[1] = "'" /\ lit[Len(lit)] = "'" ->
           JsString(Unquote(SubSeq(lit, 2, Len(lit) - 1)))
      [] OTHER -> JsNumber(lit, Includes(lit, <<".">>))

\* C17: for every row value that is a string (quotes and backslashes
\* included), a boolean, null or a JSON object, the literal of the INSERT
\* renderer, parsed back as a standard SQL literal, equals the original
\* value; null is rendered as NULL and never as an empty string.
C17_LiteralsRoundTrip ==
    ScriptsWritten =>
        LET script == files["complete-restore.sql"]
        IN  \A k \in 1..Len(script) :
               script[k].kind = "INSERT INTO" =>
                  \A t \in 1..Len(script[k].tuples) :
                     \A c \in 1..Len(RowKeys) :
                        (RowKeys[c] = "payload"
                         /\ remote.payload.type
                               \in {"string", "boolean", "null", "object"})
                        => /\ ParseSqlLiteral(script[k].tuples[t][c])
                                 = remote.payload
                           /\ (remote.payload = JsNull
                                  => script[k].tuples[t][c]
                                        = <<"N", "U", "L", "L">>)

\* the rules of the stated list that apply to a value, in the stated order
ListedRules(v) ==
    << <<v.type \in {"null", "undefined"}, "text">>,
       <<v.type = "boolean", "boolean">>,
       <<v.type = "number" /\ ~v.frac, "integer">>,
       <<v.type = "number", "numeric">>,
       <<v.type = "string" /\ IsUuid(v.s), "uuid">>,
       <<v.type = "string" /\ Includes(v.s, <<"T">>)
            /\ Includes(v.s, <<"Z">>) /\ DateParses(v.s),
         "timestamp with time zone">>,
       <<v.type = "string" /\ IsDate(v.s), "date">>,
       <<v.type = "string" /\ IsTime(v.s), "time">>,
       <<v.type = "string" /\ Len(v.s) <= 255, "varchar(255)">>,
       <<v.type = "string", "text">>,
       <<v.type = "object", "jsonb">> >>

\* the stated list with the rule that CompleteSupabaseBackup adds after
\* the time rule: a string that holds "@" and "." gives text
RulesWithEmail(v) ==
    SubSeq(ListedRules(v), 1, 8)
    \o << <<v.type = "string" /\ Includes(v.s, <<"@">>)
                /\ Includes(v.s, <<".">>), "text">> >>
    \o SubSeq(ListedRules(v), 9, 11)

\* the type of the first rule that matches
FirstMatch(rules) ==
    rules[CHOOSE k \in 1..Len(rules) :
             rules[k][1] /\ \A j \in 1..(k - 1) : ~rules[j][1]][2]

\* String.prototype.toUpperCase on the type names
ToUpperCase ==
    ("text" :> "TEXT") @@ ("boolean" :> "BOOLEAN") @@ ("integer" :> "INTEGER")
    @@ ("numeric" :> "NUMERIC") @@ ("uuid" :> "UUID")
    @@ ("timestamp with time zone" :> "TIMESTAMP WITH TIME ZONE")
    @@ ("date" :> "DATE") @@ ("time" :> "TIME")
    @@ ("varchar(255)" :> "VARCHAR(255)") @@ ("jsonb" :> "JSONB")

\* the table structures whose columns analyzeTableStructures inferred from
\* a sampled row
InferredStructures ==
    IF remote.catalog["columns"] = "unavailable"
    THEN results.schema.tableStructures ELSE <<>>

\* the value from which column c of an inferred structure was typed
SampledValue(tableInfo, c) == Row(remote, tableInfo.table_name, 1)[RowKeys[c]]

\* C18 as stated: in both classes alike, up to letter case, inferDataType
\* returns the type of the first matching rule of the list (null, boolean,
\* integer, numeric, uuid, timestamp with time zone, date, time,
\* varchar(255) up to 255 characters, text, jsonb).
C18_BothClassesFollowTheList ==
    \A i \in 1..Len(InferredStructures) :
       \A c \in 1..Len(RowKeys) :
          LET v == SampledValue(InferredStructures[i], c)
          IN  /\ InferredStructures[i].columns[c].data_type
                    = ToUpperCase[FirstMatch(ListedRules(v))]
              /\ CompleteInferDataType(v) = FirstMatch(ListedRules(v))

\* C18 amended: ProfessionalSupabaseBackup.inferDataType returns, in upper
\* case, the type of the first matching rule of the list;
\* CompleteSupabaseBackup.inferDataType returns, in lower case, the type of
\* the first matching rule of the list extended by the rule "a string that
\* holds @ and . gives text" between the time rule and the length rules.
C18_ListAndEmailRule ==
    \A i \in 1..Len(InferredStructures) :
       \A c \in 1..Len(RowKeys) :
          LET v == SampledValue(InferredStructures[i], c)
          IN  /\ InferredStructures[i].columns[c].data_type
                    = ToUpperCase[FirstMatch(ListedRules(v))]
              /\ CompleteInferDataType(v) = FirstMatch(RulesWithEmail(v))

\* a column typed from a sampled string that starts HH:MM:SS, which also
\* matches the length rule further down the list
C18_Witness ==
    /\ Len(InferredStructures) > 0
    /\ remote.payload.type = "string"
    /\ IsTime(remote.payload.s)
    /\ InferredStructures[1].columns[2].data_type = "TIME"

\* the characters of the modelled names in ascending byte order
ByteOrder ==
    <<".", "_", "a", "b", "c", "d", "e", "f", "g", "h", "i", "j", "k", "l",
      "m", "n", "o", "p", "q", "r", "s", "t", "u", "v", "w", "x", "y", "z">>

CharCode(ch) == CHOOSE k \in 1..Len(ByteOrder) : ByteOrder[k] = ch

\* a comes before b, or is b, in byte order
NameLeq(a, b) ==
    \/ a = b
    \/ \E i \in 1..(Len(b)) :
          /\ SubSeq(a, 1, Min(i - 1, Len(a))) = SubSeq(b, 1, i - 1)
          /\ \/ Len(a) = i - 1
             \/ Len(a) >= i /\ CharCode(a[i]) < CharCode(b[i])

\* the schema names of the modelled databases in ascending byte order
SchemaOrder == << "app", "public" >>

SchemaRank(schema) ==
    CHOOSE k \in 1..Len(SchemaOrder) : SchemaOrder[k] = schema

\* list is in ascending (schema, name) order under the two field names
Ascending(list, schemaField, nameField) ==
    IsArray(list) =>
        \A i \in 1..(Len(list) - 1) :
           \/ SchemaRank(list[i][schemaField])
                 < SchemaRank(list[i + 1][schemaField])
           \/ /\ list[i][schemaField] = list[i + 1][schemaField]
              /\ NameLeq(list[i][nameField], list[i + 1][nameField])

\* C19: for every discovery tier that produced it (privileged query,
\* OpenAPI listing, name probe, manual list), each record list stored in
\* results.schema is in ascending (schema name, object name) order; stated
\* for the categories that hold more than one record in the modelled
\* databases: tables, table structures, functions, policies, indexes.
C19_RecordsAreSorted ==
    /\ Ascending(results.schema.tables, "table_schema", "table_name")
    /\ Ascending(results.schema.tableStructures, "table_schema", "table_name")
    /\ Ascending(results.schema.functions, "routine_schema", "routine_name")
    /\ Ascending(results.schema.policies, "schemaname", "tablename")
    /\ Ascending(results.schema.indexes, "schemaname", "indexname")

\* the executable schema object statements of a script
SchemaStatementKinds ==
    { "DROP TABLE", "CREATE TABLE", "indexdef", "definition",
      "CREATE SEQUENCE", "CREATE OR REPLACE VIEW", "CREATE TRIGGER",
      "CREATE POLICY" }

\* C20: a run started with --data-only backs up data only: its
\* complete-restore script holds no DROP TABLE or CREATE TABLE and no
\* index, enum, sequence, view, function, trigger or policy statement.
C20_DataOnlyRunHasNoSchemaStatements ==
    ( /\ ScriptsWritten
      /\ config = CommandLine(BACKUP_CONFIG, << <<"-", "-", "d", "a", "t", "a", "-", "o", "n", "l", "y">> >>) )
    => \A k \in 1..Len(files["complete-restore.sql"]) :
          files["complete-restore.sql"][k].kind \notin SchemaStatementKinds

(***************************************************************************)
(* C21 - C30: the command line, batching, paging, tiers, RLS, constraints  *)
(***************************************************************************)

\* the table list of the last --manual-tables= argument, <<>> without one
RECURSIVE ManualArgument(_)
ManualArgument(args) ==
    IF args = <<>> THEN <<>>
    ELSE IF StartsWith(args[Len(args)], <<"-", "-", "m", "a", "n", "u", "a", "l", "-", "t", "a", "b", "l", "e", "s", "=">>)
    THEN Split(args[Len(args)], "=")[2]
    ELSE ManualArgument(SubSeq(args, 1, Len(args) - 1))

\* the table answers a read without an error
Readable(n) ==
    LET p == SelectLimit(remote, n, 0)
    IN  ~p.thrown /\ p.error = NoError

\* the records of the readable tables among the names, in their order
RECURSIVE ReadableTables(_)
ReadableTables(names) ==
    IF names = <<>> THEN <<>>
    ELSE (IF Readable(Head(names)) THEN <<RestTable(Head(names))>> ELSE <<>>)
         \o ReadableTables(Tail(names))

\* the privileged query, the resource listing and the name probe all come
\* back without a table
EarlierTiersEmpty ==
    /\ remote.catalog["tables"] \in {"unavailable", "empty"}
    /\ \/ remote.openapi # "ok"
       \/ OpenApiTables(config, Definitions(remote)) = <<>>
    /\ \A i \in 1..Len(commonTableNames) : ~Readable(commonTableNames[i])

\* C21: when the process is started with --manual-tables=a,b and every
\* earlier tier finds no table, the tables discovered by the run are those
\* of a, b that can be read.
C21_ManualFlagTablesAreDiscovered ==
    ( /\ ManualArgument(argv) # <<>>
      /\ EarlierTiersEmpty
      /\ After("discoverTables") )
    => results.schema.tables = ReadableTables(Split(ManualArgument(argv), ","))

\* tuples.flat(): the value tuples of the statements, in script order
RECURSIVE AllTuples(_)
AllTuples(statements) ==
    IF statements = <<>> THEN <<>>
    ELSE Head(statements).tuples \o AllTuples(Tail(statements))

\* ceil(n / d)
CeilDiv(n, d) == (n + d - 1) \div d

\* the table entries of results.data that hold at least one row
TablesWithRows ==
    { n \in DOMAIN results.data : HasRows(results.data[n]) }

\* the batching rule for the INSERT statements of one table in a script
BatchedInserts(script, n) ==
    LET inserts == InsertsFor(script, n)
        rows == results.data[n].data
        tuples == AllTuples(inserts)
    IN  /\ Len(inserts) = CeilDiv(Len(rows), 100)
        /\ \A k \in 1..Len(inserts) :
              /\ Len(inserts[k].tuples) <= 100
              /\ \A t \in 1..Len(inserts[k].tuples) :
                    Len(inserts[k].tuples[t]) = Len(inserts[k].columns)
        /\ Len(tuples) = Len(rows)
        /\ \A k \in 1..Len(rows) :
              tuples[k] = [c \in 1..Len(RowKeys) |->
                              SqlLiteral(Row(remote, n, rows[k])[RowKeys[c]])]

\* C22: for every table with n >= 1 extracted rows the data section holds
\* exactly ceil(n/100) INSERT statements for it, each with at most 100 value
\* tuples of one value per listed column, and the tuples of all its
\* statements are the n rows, each once, in extraction order.
C22_RowsAreBatchedByHundred ==
    ScriptsWritten =>
        \A n \in TablesWithRows :
            /\ BatchedInserts(files["complete-restore.sql"], n)
            /\ BatchedInserts(files["data-only.sql"], n)

\* a written script with a table of 250 rows (three statements, the last
\* one partial) and a table of exactly 100 rows (one full statement)
C22_Witness ==
    /\ ScriptsWritten
    /\ Len(InsertsFor(files["complete-restore.sql"], orders)) = 3
    /\ Len(InsertsFor(files["complete-restore.sql"], orders)[3].tuples) = 50
    /\ Len(results.data[invoices].data) = 100
    /\ Len(InsertsFor(files["data-only.sql"], invoices)) = 1

\* the range reads of the request log for one table, in the order issued
RangeReads(n) ==
    SelectSeq(requests,
              LAMBDA q : q.kind = "range" /\ q.target = n)

\* the number of the k-th range read within its extraction: an extraction
\* starts with the read at offset 0
CallNumber(reads, k) ==
    k + 1 - (CHOOSE j \in 1..k :
                /\ reads[j].from = 0
                /\ \A i \in (j + 1)..k : reads[i].from # 0)

\* what the k-th range read of table n came back with
Response(n, reads, k) ==
    SelectRange(remote, n, reads[k].from, reads[k].to, CallNumber(reads, k))

\* the k-th range read returned rows, and the next read of the same
\* extraction starts right after the last row it returned
NextPageFollows(n, reads, k) ==
    LET resp == Response(n, reads, k)
    IN  /\ ~resp.thrown
        /\ resp.error = NoError
        /\ Len(resp.data) >= 1
        /\ reads[k + 1].from = reads[k].from + Len(resp.data)

\* the k-th range read returned every row it asked for
FullPage(n, reads, k) ==
    Len(Response(n, reads, k).data) = reads[k].to - reads[k].from + 1

\* C23 as stated: page N+1 is requested only after page N has completed,
\* and after a range read that returns fewer rows than requested no further
\* range read is issued for the table.
C23_ShortPageEndsPaging ==
    \A n \in DOMAIN remote.db :
        LET reads == RangeReads(n)
        IN  \A k \in 1..(Len(reads) - 1) :
               reads[k + 1].from # 0
               => /\ NextPageFollows(n, reads, k)
                  /\ FullPage(n, reads, k)

\* C23 amended: page N+1 is requested only after page N has completed, at
\* the offset that follows the last row received; after a range read that
\* fails or returns no row no further range read is issued for the table.
C23_EmptyOrFailedPageEndsPaging ==
    \A n \in DOMAIN remote.db :
        LET reads == RangeReads(n)
        IN  \A k \in 1..(Len(reads) - 1) :
               reads[k + 1].from # 0 => NextPageFollows(n, reads, k)

\* a table whose first page came back short (500 of 1000 rows asked for)
\* and was followed by the read of the next window
C23_Witness ==
    /\ After("backupAllData")
    /\ \E n \in DOMAIN remote.db :
          LET reads == RangeReads(n)
          IN  /\ Len(reads) >= 2
              /\ reads[1] = Request("range", n, 0, 999)
              /\ Len(Response(n, reads, 1).data) = 500
              /\ reads[2].from = 500

\* the second range read of table n fails, by an error result or by
\* throwing, after a first page of 1000 rows
SecondPageFails(n, modes) ==
    /\ ~MatchesExclusion(n)
    /\ remote.db[n].count = "exact"
    /\ remote.db[n].read \in modes
    /\ Min(remote.db[n].rows, config.maxRowsPerTable) > 1000

\* the rows of the first page are stored for table n and counted
FirstPageKept(n) ==
    /\ n \in DOMAIN results.data
    /\ "data" \in DOMAIN results.data[n]
    /\ results.data[n].data = FirstRows(1000)
    /\ results.statistics.totalRows
          = SumRows(results.data, DOMAIN results.data)

\* C24: when a range read fails after earlier pages succeeded, the entry
\* stored for the table holds every row of the earlier pages, in order, and
\* these rows are counted in statistics.totalRows.
C24_EarlierPagesAreKept ==
    (Extracted /\ DistinctNames) =>
        \A n \in DiscoveredNames \cap DOMAIN remote.db :
            SecondPageFails(n, {"page2error", "page2throw"})
            => FirstPageKept(n)

\* the failure of a read of table n is on record: its entry carries an
\* error field, or results.errors holds a line that names the table
FailureRecorded(n) ==
    \/ /\ n \in DOMAIN results.data
       /\ "error" \in DOMAIN results.data[n]
    \/ \E i \in 1..Len(results.errors) : results.errors[i].target = n

\* a read of table n failed during extraction: the probe read, or one of
\* the range reads that were issued
ReadFailed(n) ==
    \/ \E i \in 1..Len(requests) :
          /\ requests[i] = Request("select", n, 0, 0)
          /\ i > 1
          /\ requests[i - 1] = Request("count", n, 0, 0)
          /\ LET p == SelectLimit(remote, n, 1)
             IN  p.thrown \/ p.error # NoError
    \/ LET reads == RangeReads(n)
       IN  \E k \in 1..Len(reads) :
              LET resp == Response(n, reads, k)
              IN  resp.thrown \/ resp.error # NoError

\* C25: whenever a read for a table fails during extraction (the probe read
\* or a range read of the paging loop), the failure is recorded for that
\* table, in its entry of results.data or in results.errors.
C25_ReadFailuresAreRecorded ==
    (Extracted /\ DistinctNames) =>
        \A n \in DiscoveredNames \cap DOMAIN remote.db :
            ReadFailed(n) => FailureRecorded(n)

\* the positions of the requests of tier t in a request sequence
TierPositions(seq, t) == { i \in 1..Len(seq) : seq[i].kind \in TierKinds[t] }

\* no request of the sequence is made twice
NoRepeatedRequest(seq) ==
    \A i, j \in 1..Len(seq) :
        (i < j /\ seq[i].kind \notin TierKinds[1]) => seq[i] # seq[j]

\* the state machine of one table discovery over the requests it made:
\* every fallback tier runs at most once, the tiers run in order, and a
\* tier runs only after the tier before it ran and found no table
TierStateMachine(seq) ==
    /\ NoRepeatedRequest(seq)
    /\ \A t, u \in 1..4 : \A i \in TierPositions(seq, t) :
          \A j \in TierPositions(seq, u) : t < u => i < j
    /\ TierPositions(seq, 2) # {}
          => TierPositions(seq, 1) # {} /\ PrivilegedTables = <<>>
    /\ TierPositions(seq, 3) # {}
          => TierPositions(seq, 2) # {} /\ ListedTables = <<>>
    /\ TierPositions(seq, 4) # {}
          => TierPositions(seq, 3) # {} /\ ProbedTables = <<>>

\* C26: during one table discovery each fallback tier (OpenAPI listing,
\* common-name probe, manual list) is attempted at most once, in that
\* order, and only if every tier before it was attempted and came back
\* empty or failed.
C26_TiersFollowTheStateMachine ==
    [][pc = "discoverTables" =>
         TierStateMachine(
             SubSeq(requests', Len(requests) + 1, Len(requests')))]_vars

\* the positions of the statements of one kind in a script
StatementsOf(script, kind) == { i \in 1..Len(script) : script[i].kind = kind }

\* the (schema, table) pairs that have at least one discovered policy
PairsWithPolicies ==
    IF ~IsArray(results.schema.policies) THEN {}
    ELSE { Qualified(results.schema.policies[i].schemaname,
                     results.schema.policies[i].tablename) :
              i \in 1..Len(results.schema.policies) }

\* C27: in the complete restore script every distinct (schema, table) pair
\* with at least one policy has exactly one ALTER TABLE ... ENABLE ROW
\* LEVEL SECURITY statement, which precedes every CREATE POLICY statement of
\* the pair, and no pair without policies has such a statement.
C27_RlsEnabledOncePerTable ==
    ScriptsWritten =>
        LET script == files["complete-restore.sql"]
            enabled == StatementsOf(script, "ALTER TABLE")
            created == StatementsOf(script, "CREATE POLICY")
        IN  /\ \A pair \in PairsWithPolicies :
                  /\ Cardinality({ i \in enabled : script[i].ref = pair }) = 1
                  /\ \E j \in created : script[j].ref = pair
                  /\ \A i \in enabled : \A j \in created :
                        (script[i].ref = pair /\ script[j].ref = pair)
                            => i < j
            /\ \A i \in enabled : script[i].ref \in PairsWithPolicies

\* two references name the same table; a bare reference names the table of
\* that name in any schema
SameTable(a, b) ==
    /\ a.table = b.table
    /\ (a.qualified /\ b.qualified) => a.schema = b.schema

\* the statement kinds that need their table to exist
TableUsingKinds == { "ANALYZE", "INSERT INTO", "ALTER TABLE", "CREATE POLICY" }

\* C28: every table named by an ANALYZE, INSERT INTO, ALTER TABLE ... ENABLE
\* ROW LEVEL SECURITY or CREATE POLICY statement of the complete restore
\* script has a CREATE TABLE statement earlier in the script, whatever
\* discovery found.
C28_TablesAreCreatedBeforeUse ==
    ScriptsWritten =>
        LET script == files["complete-restore.sql"]
        IN  \A i \in 1..Len(script) :
               script[i].kind \in TableUsingKinds
               => \E j \in 1..(i - 1) :
                     /\ script[j].kind = "CREATE TABLE"
                     /\ SameTable(script[j].ref, script[i].ref)

\* the CREATE TABLE statements of a script for the table of that name
CreatesFor(script, tableName) ==
    SelectSeq(script,
              LAMBDA item :
                 item.kind = "CREATE TABLE" /\ item.ref.table = tableName)

\* no value tuple of the statement  insert  holds NULL in a column that
\* the statement  create  declares NOT NULL
SatisfiesNotNull(create, insert) ==
    \A t \in 1..Len(insert.tuples) :
       \A c \in 1..Len(insert.columns) :
          Contains(create.notNull, insert.columns[c])
          => insert.tuples[t][c] # SqlLiteral(JsNull)

\* C29: for a table whose columns were inferred from one sampled row, no
\* value tuple that the complete restore script inserts into the table has
\* NULL in a column that the script's CREATE TABLE statement for the table
\* declares NOT NULL.
C29_InsertedRowsSatisfyNotNull ==
    ScriptsWritten =>
        LET script == files["complete-restore.sql"]
        IN  \A i \in 1..Len(InferredStructures) :
               LET n == InferredStructures[i].table_name
                   creates == CreatesFor(script, n)
                   inserts == InsertsFor(script, n)
               IN  \A k \in 1..Len(creates) :
                      \A j \in 1..Len(inserts) :
                         SatisfiesNotNull(creates[k], inserts[j])

\* the run has returned from run() with its files written
RunCompleted == pc = "done" /\ "backup-summary.json" \in DOMAIN files

\* C30: the backupDuration written into backup-summary.json, into
\* complete-backup.json and into the README is the measured elapsed time of
\* the run, the value statistics.backupDuration holds when run() returns.
C30_FilesHoldTheMeasuredDuration ==
    RunCompleted =>
        LET measured == results.statistics.backupDuration
        IN  /\ files["backup-summary.json"].backup.duration = measured
            /\ files["backup-summary.json"].statistics.backupDuration
                  = measured
            /\ "complete-backup.json" \in DOMAIN files
               => files["complete-backup.json"].statistics.backupDuration
                     = measured
            /\ "README.md" \in DOMAIN files
               => files["README.md"].duration = Seconds(measured)

====
